---- MODULE Spec2Model ----
(***************************************************************************)
(* Build-to-device delivery pipeline of termux-orchestrator.               *)
(*                                                                         *)
(* One behaviour is one run of one program of the repository:              *)
(*   poll_and_deliver  poll_and_deliver.sh  (poll, download, install)      *)
(*   trigger_ci        trigger_ci.js        (pollGitHubActions, ...)       *)
(*   ci_download       ci/download_artifact.js (--provider ...)            *)
(*   download          download_artifact.js (positional arguments)         *)
(*   auto_install      auto_install.sh      (delivery chain)               *)
(*   downloadFile      ci/download_artifact.js downloadFile (one call)     *)
(* Init draws the program, its arguments and the host environment; the CI  *)
(* backend and the outcome of each external command are drawn when the     *)
(* code calls them.                                                        *)
(***************************************************************************)
EXTENDS Integers, Sequences, FiniteSets, TLC

VARIABLES
    prog,             \* which program this run is
    CI_PROVIDER,      \* --ci / --provider
    argv,             \* download scripts: "given", or "none" for no arguments at all
    TIMEOUT_SECONDS,  \* poll_and_deliver.sh --timeout (seconds)
    maxWaitMinutes,   \* trigger_ci.js --timeout (minutes)
    AUTO_INSTALL,     \* poll_and_deliver.sh --auto-install
    NO_NOTIFY,        \* poll_and_deliver.sh --no-notify
    FORCE_ADB,        \* auto_install.sh --force-adb
    NO_PERMISSIONS,   \* auto_install.sh --no-permissions
    notifier,         \* termux-notification on this host: absent / present
    termuxOpen,       \* termux-open on this host: absent / ok / fail (unknown: not drawn yet)
    adb,              \* adb on this host (unknown: not drawn yet)
    build,            \* what the CI backend currently answers for the handle
    pc,               \* position of the program
    attempts,         \* shell pollers: local attempts
    attempt,          \* trigger_ci.js pollers: loop variable attempt
    queries,          \* number of status queries issued so far
    sleeps,           \* number of poll intervals waited so far
    observed,         \* the replies the status queries got so far
    last,             \* the reply of the latest status query
    pollState,        \* Idle, Polling, Succeeded, Failed, TimedOut, Error
    errorMsg,         \* message of die / of the thrown Error
    artifactUrl,      \* artifact URL resolved / returned / downloaded from
    stages,           \* pipeline stages begun, in order
    apk_file,         \* what main captured from download_artifact (lines)
    downloaded_file,  \* the file the download left on disk ("" if none)
    methods,          \* installation methods attempted, in order
    chmods,           \* number of chmod 644 calls
    logged,           \* key lines written by log
    file_exists,      \* the artifact path names an existing file
    file_size,        \* its size in bytes
    file_ext,         \* path.extname of the artifact path
    validation,       \* validateArtifact: none / passed / the error thrown
    warned,           \* validateArtifact logged "Unexpected file type"
    hops,             \* downloadFile: one record per request of the redirect chain
    received,         \* downloadFile: downloadedSize of the 200 response
    contentLength,    \* downloadFile: content-length the 200 response declared
    tree,             \* unpacking: the files of the archive, in traversal order
    isZip,            \* unpacking: the archive path ends in ".zip"
    unzipOk,          \* unpacking: unzip exits 0
    artifactPath,     \* unpacking: the path the retriever returns
    credential,       \* the provider's CLI / token: "unchecked", "present", "absent"
    requests,         \* commands of a trigger or download that reached the provider
    handle,           \* trigger: the build handle main printed
    agent,            \* runner: the agent run; createAppSpec: the agent whose AppSpec is returned
    retries,          \* runner: config.retries
    invocations,      \* runner: calls of the agent's CLI with the task
    delays,           \* runner: the delays waited, in seconds
    cli,              \* outcome of the latest CLI call (createAppSpec: of Gemini)
    fallback,         \* createAppSpec: outcome of Claude
    outcome,          \* "pending", "returned" or "thrown"
    fixOptions,       \* autoFix: options
    fixResults,       \* autoFix: the object it returns
    category,         \* implementFeature: featureSpec.category
    additionalFiles,  \* implementFeature: Claude's answer has a files list
    failedStep,       \* implementFeature: the step that throws, or "none"
    cwd,              \* scaffoldProject: process.cwd()
    originalDir,      \* scaffoldProject: const originalDir of runPostGeneration
    framework,        \* scaffoldProject: appSpec.framework
    exitCode          \* exit status of the process, -1 while it runs

argVars  == <<prog, CI_PROVIDER, argv, TIMEOUT_SECONDS, maxWaitMinutes, AUTO_INSTALL,
              NO_NOTIFY, FORCE_ADB, NO_PERMISSIONS>>
envVars  == <<notifier, termuxOpen, adb>>
pollVars == <<build, attempts, attempt, queries, sleeps, observed, last,
              pollState, artifactUrl>>
pipeVars == <<stages, apk_file, downloaded_file, methods, chmods>>
fileVars == <<file_exists, file_size, file_ext, validation, warned>>
dfVars   == <<hops, received, contentLength>>
unzipVars == <<tree, isZip, unzipOk, artifactPath>>
credVars == <<credential, requests, handle>>
agentVars == <<agent, retries, invocations, delays, cli, fallback, outcome>>
fixVars  == <<fixOptions, fixResults>>
featVars == <<category, additionalFiles, failedStep>>
scaffVars == <<cwd, originalDir, framework>>
moreVars == <<featVars, scaffVars>>
extVars  == <<unzipVars, credVars, agentVars, fixVars, moreVars>>
vars     == <<argVars, envVars, pollVars, pipeVars, fileVars, dfVars, extVars, pc,
              errorMsg, logged, exitCode>>

----------------------------------------------------------------------------
(* Bounds and program constants *)

\* Timeout budgets are the multiples of 15 s up to 15 * MaxTimeoutUnits.
MaxTimeoutUnits == 8
\* trigger_ci.js budgets are 0..MaxWaitMinutes minutes.
MaxWaitMinutes == 2
\* Files hold 0..MaxFileSize bytes.
MaxFileSize == 2
\* downloadFile issues at most MaxHops requests (MaxHops - 1 redirects).
MaxHops == 3
\* The 300000 ms of request.setTimeout, in clock ticks of the model.
TimeoutTicks == 2
\* An archive holds at most MaxTreeFiles files, at depth 0..MaxDepth below
\* the directory it is unpacked into.
MaxTreeFiles == 2
MaxDepth == 1

\* config.retries is 0..MaxRetries; a stage of autoFix reports up to
\* MaxChanges changes.
MaxRetries == 3
MaxChanges == 2

POLL_INTERVAL == 30

TimeoutChoices == {15 * k : k \in 0..MaxTimeoutUnits}
WaitChoices    == 0..MaxWaitMinutes

Providers == {"github", "codemagic", "eas"}

----------------------------------------------------------------------------
(* The CI backend: what a status query can answer *)

Reply(s, c, a) == [status |-> s, conclusion |-> c, artifact |-> a]

\* no query made yet
NoReply == Reply("none", "null", FALSE)
\* the status command exited non-zero or printed something unparsable
QueryError == Reply("error", "null", FALSE)

\* status: the provider's status string.  conclusion: GitHub .conclusion,
\* Codemagic .success (true = "success").  artifact: the build has one.
BuildStates(p) ==
    IF p = "github" THEN
        {Reply(s, "null", FALSE) : s \in {"in_progress", "waiting"}}
        \cup {Reply("completed", c, a) :
                 c \in {"success", "failure", "cancelled"}, a \in BOOLEAN}
    ELSE IF p = "codemagic" THEN
        {Reply(s, "null", FALSE) : s \in {"queued", "building"}}
        \cup {Reply("finished", c, a) : c \in {"success", "failure"}, a \in BOOLEAN}
        \cup {Reply(s, "failure", a) : s \in {"failed", "canceled"}, a \in BOOLEAN}
    ELSE
        {Reply(s, "null", FALSE) : s \in {"new", "in-progress"}}
        \cup {Reply("finished", "success", a) : a \in BOOLEAN}
        \cup {Reply(s, "failure", FALSE) : s \in {"errored", "canceled"}}

\* The status strings with which a provider reports a build that is over.
FinishedStatuses == {"completed", "finished", "failed", "errored", "canceled"}

\* A finished build stays as it is; an unfinished one may be in any state
\* at the next query.
BackendNext(p, b) ==
    IF b.status \in FinishedStatuses THEN {b} ELSE BuildStates(p)

\* One status query: the backend's state at that moment, or a failed query.
QueryReplies(p, b) ==
    UNION {{[build |-> nb, reply |-> nb], [build |-> nb, reply |-> QueryError]} :
              nb \in BackendNext(p, b)}

----------------------------------------------------------------------------
(* poll_and_deliver.sh: helpers *)

\* variant: one attempt per minute of budget instead of one per interval
max_attempts_per_minute(T) == T \div 60

\* max_attempts=$((TIMEOUT_SECONDS / POLL_INTERVAL))
max_attempts(T) == T \div POLL_INTERVAL

\* variant: -le for -lt
ShellLoopRuns_le(a, T) == a <= max_attempts(T)

\* while [ $attempts -lt $max_attempts ]
ShellLoopRuns(a, T) == a < max_attempts(T)

\* case "$status" of poll_github: return / die / wait / unknown
poll_github_case(r) ==
    IF r.status = "completed" THEN
        IF r.conclusion = "success" THEN "return" ELSE "die"
    ELSE IF r.status \in {"in_progress", "queued"} THEN "wait"
    ELSE "unknown"

\* case "$status" of poll_codemagic
poll_codemagic_case(r) ==
    IF r.status = "finished" THEN
        IF r.conclusion = "success" THEN "return" ELSE "die"
    ELSE IF r.status \in {"building", "preparing", "provisioning"} THEN "wait"
    ELSE IF r.status = "failed" THEN "die"
    ELSE "unknown"

\* variant: "errored"|"canceled" fall into the "finished" branch
poll_eas_case_all_finished(r) ==
    IF r.status \in {"finished", "errored", "canceled"} THEN "return"
    ELSE IF r.status \in {"in-queue", "in-progress"} THEN "wait"
    ELSE "unknown"

\* case "$status" of poll_eas
poll_eas_case(r) ==
    IF r.status = "finished" THEN "return"
    ELSE IF r.status \in {"in-queue", "in-progress"} THEN "wait"
    ELSE IF r.status \in {"errored", "canceled"} THEN "die"
    ELSE "unknown"

\* One iteration of a shell poll loop on reply r: a failed status command
\* logs, sleeps and continues; otherwise the case statement decides.
ShellPollCase(p, r) ==
    IF r = QueryError THEN "retry"
    ELSE IF p = "github" THEN poll_github_case(r)
    ELSE IF p = "codemagic" THEN poll_codemagic_case(r)
    ELSE poll_eas_case(r)

\* notify: what one call does.  disabled (--no-notify), unavailable
\* (termux-notification not installed), sent, or error (it exits non-zero).
NotifyOutcomes(noNotify, n) ==
    IF noNotify THEN {"disabled"}
    ELSE IF n = "absent" THEN {"unavailable"}
    ELSE {"sent", "error"}

\* exit statuses a failing termux-notification may have
NotifierFailCodes == {1, 2}

\* log writes its line to the log file and, through tee, to standard output.
LogLine(msg) == "[log] " \o msg

\* Standard output of a successful download_artifact call: its three log
\* lines, then the echo of the path.
DownloadStdout(path) ==
    <<LogLine("Downloading artifact"), LogLine("Running: node download_artifact.js"),
      LogLine("Downloaded"), path>>

\* du -h "$apk_file": the captured text names an existing file.
PathExists(captured, onDisk) ==
    Len(captured) = 1 /\ onDisk # "" /\ captured[1] = onDisk

TermuxOpenStates == {"absent", "ok", "fail"}
AdbStates == {"absent", "broken", "nodevice", "unauthorized", "ok", "fail"}

\* install_apk: termux-open if installed, then adb if installed and a line of
\* `adb devices` ends in "device", then the manual notification; returns 0
\* after the first method that succeeds, 1 otherwise.
install_apk(to, ad) ==
    IF to = "ok" THEN [ret |-> 0, methods |-> <<"termux-open">>]
    ELSE LET m1 == IF to = "fail" THEN <<"termux-open">> ELSE <<>> IN
         IF ad = "ok" THEN [ret |-> 0, methods |-> m1 \o <<"adb">>]
         ELSE IF ad = "fail" THEN [ret |-> 1, methods |-> m1 \o <<"adb", "manual">>]
         ELSE [ret |-> 1, methods |-> m1 \o <<"manual">>]

\* download_artifact, "github" branch: IDENTIFIER is "$REPO/$RUN_ID", a path
\* of segments; repo="${identifier%/*}" drops the last segment and
\* run_id="${identifier#*/}" drops the first.
Identifier(repo, runId) == repo \o <<runId>>
identifier_repo(id) == SubSeq(id, 1, Len(id) - 1)
identifier_run_id(id) == Tail(id)

\* REPO has the format owner/repo
REPO == <<"owner", "repo">>
RUN_ID == "42"

\* The download script is asked for the run that was polled.
DownloadAsksPolledBuild(p) ==
    p = "github" =>
        /\ identifier_repo(Identifier(REPO, RUN_ID)) = REPO
        /\ identifier_run_id(Identifier(REPO, RUN_ID)) = <<RUN_ID>>

\* What download_artifact can end as: the script is not found, node exits
\* non-zero, no file can be named from its output, the named file is not a
\* regular file, or the file is there.  node exits 0 only if it was asked for
\* the polled build and that build b has an artifact.
DownloadOutcomes(p, b) ==
    {"script_not_found", "node_failed"}
    \cup (IF DownloadAsksPolledBuild(p) /\ b.artifact
          THEN {"no_apk_found", "file_missing", "ok"} ELSE {})

DownloadedFiles == {"payload.apk", "artifact.zip"}

\* main after the download (lines 815-837), as one result: du on the
\* captured text, then, with --auto-install, notify, install_apk, notify.
\* n1 is the outcome of the notification before install_apk, n2 of the one
\* after it (or of "Download Complete"), code the status of a failing one.
MainTail(auto, captured, onDisk, to, ad, n1, n2, code) ==
    IF ~PathExists(captured, onDisk) THEN
        [exit |-> 1, stages |-> <<>>, methods |-> <<>>, chmods |-> 0, logged |-> {}]
    ELSE IF ~auto THEN
        IF n2 = "error"
        THEN [exit |-> code, stages |-> <<>>, methods |-> <<>>, chmods |-> 0,
              logged |-> {"APK downloaded"}]
        ELSE [exit |-> 0, stages |-> <<>>, methods |-> <<>>, chmods |-> 0,
              logged |-> {"APK downloaded", "Download completed, auto-install disabled"}]
    ELSE IF n1 = "error" THEN
        [exit |-> code, stages |-> <<>>, methods |-> <<>>, chmods |-> 0,
         logged |-> {"APK downloaded"}]
    ELSE LET r == install_apk(to, ad) IN
        [exit    |-> IF n2 = "error" THEN code ELSE 0,
         stages  |-> <<"install">>,
         methods |-> r.methods,
         chmods  |-> 1,
         logged  |-> {"APK downloaded"} \cup
                     (IF n2 = "error" THEN {}
                      ELSE IF r.ret = 0 THEN {"Delivery completed successfully"}
                      ELSE {"Automatic installation failed, but APK is available"})]

----------------------------------------------------------------------------
(* poll_and_deliver.sh: actions *)

Deliver == prog = "poll_and_deliver"

\* the process ends with this status
\* process.env / command -v: the credential or CLI a provider needs
Credential(ok) == IF ok THEN "present" ELSE "absent"

Exit(code, msg) == pc' = "exit" /\ exitCode' = code /\ errorMsg' = msg

Continue(next) == pc' = next /\ UNCHANGED <<exitCode, errorMsg>>

\* notify called as a plain command of main under set -e: a failing
\* termux-notification ends the script with its status.
NotifyThen(next) ==
    \E n \in NotifyOutcomes(NO_NOTIFY, notifier) :
        IF n = "error"
        THEN \E c \in NotifierFailCodes : Exit(c, errorMsg)
        ELSE Continue(next)

\* notify "Build Polling"
DeliverNotifyPolling ==
    /\ Deliver /\ pc = "main"
    /\ NotifyThen("poll")
    /\ UNCHANGED <<argVars, dfVars, extVars, fileVars, envVars, pollVars, pipeVars, logged>>

\* poll_github / poll_codemagic / poll_eas up to the loop: the required CLI
\* or token is missing (die) or the loop starts with attempts=0.
ShellPollStart ==
    /\ Deliver /\ pc = "poll"
    /\ stages' = Append(stages, "poll")
    /\ \E toolOk \in BOOLEAN :
        /\ credential' = Credential(toolOk)
        /\ IF toolOk
           THEN /\ pollState' = "Polling" /\ attempts' = 0
                /\ Continue("polling")
           ELSE /\ UNCHANGED <<pollState, attempts>>
                /\ Exit(1, "required tool or credential not found")
    /\ UNCHANGED <<argVars, dfVars, unzipVars, agentVars, fixVars, moreVars, requests, handle, fileVars, envVars, build, attempt, queries, sleeps, observed, last,
                   artifactUrl, apk_file, downloaded_file, methods, chmods, logged>>

\* one iteration of the while loop
ShellPollIteration ==
    /\ Deliver /\ pc = "polling"
    /\ ShellLoopRuns(attempts, TIMEOUT_SECONDS)
    /\ attempts' = attempts + 1
    /\ \E q \in QueryReplies(CI_PROVIDER, build) :
        /\ build' = q.build
        /\ last' = q.reply
        /\ observed' = observed \cup {q.reply}
        /\ queries' = queries + 1
        /\ LET c == ShellPollCase(CI_PROVIDER, q.reply) IN
            IF c = "return" THEN
                /\ pollState' = "Succeeded" /\ sleeps' = sleeps
                /\ Continue("notify_complete")
            ELSE IF c = "die" THEN
                /\ pollState' = "Failed" /\ sleeps' = sleeps
                /\ Exit(1, "Build failed")
            ELSE
                /\ pollState' = pollState /\ sleeps' = sleeps + 1
                /\ Continue(pc)
    /\ UNCHANGED <<argVars, dfVars, extVars, fileVars, envVars, attempt, artifactUrl, pipeVars, logged>>

\* the loop ended without a return: die "Build did not complete within ..."
ShellPollTimeout ==
    /\ Deliver /\ pc = "polling"
    /\ ~ShellLoopRuns(attempts, TIMEOUT_SECONDS)
    /\ pollState' = "TimedOut"
    /\ Exit(1, "Build did not complete within")
    /\ UNCHANGED <<argVars, dfVars, extVars, fileVars, envVars, build, attempts, attempt, queries, sleeps, observed,
                   last, artifactUrl, pipeVars, logged>>

\* notify "Build Complete"
DeliverNotifyComplete ==
    /\ Deliver /\ pc = "notify_complete"
    /\ NotifyThen("download")
    /\ UNCHANGED <<argVars, dfVars, extVars, fileVars, envVars, pollVars, pipeVars, logged>>

\* apk_file=$(download_artifact "$CI_PROVIDER" "$IDENTIFIER").  With
\* --auto-install the host's installers, which install_apk will look for,
\* are drawn here: nothing reads them earlier.
DeliverDownload ==
    /\ Deliver /\ pc = "download"
    /\ stages' = Append(stages, "download")
    /\ \E o \in DownloadOutcomes(CI_PROVIDER, build), f \in DownloadedFiles,
          to \in TermuxOpenStates, ad \in AdbStates :
        IF o = "ok"
        THEN /\ downloaded_file' = f
             /\ file_exists' = TRUE
             /\ file_size' \in 0..MaxFileSize
             /\ apk_file' = DownloadStdout(f)
             /\ termuxOpen' = (IF AUTO_INSTALL THEN to ELSE termuxOpen)
             /\ adb' = (IF AUTO_INSTALL THEN ad ELSE adb)
             /\ Continue("downloaded")
        ELSE /\ UNCHANGED <<downloaded_file, file_exists, file_size, apk_file,
                            termuxOpen, adb>>
             /\ Exit(1, "Download failed")
    /\ UNCHANGED <<argVars, dfVars, extVars, file_ext, validation, warned, notifier, pollVars, methods,
                   chmods, logged>>

\* du, and with --auto-install the installation, to the end of main
DeliverAfterDownload ==
    /\ Deliver /\ pc = "downloaded"
    /\ \E n1 \in NotifyOutcomes(NO_NOTIFY, notifier),
          n2 \in NotifyOutcomes(NO_NOTIFY, notifier),
          c \in NotifierFailCodes :
        LET t == MainTail(AUTO_INSTALL, apk_file, downloaded_file,
                          termuxOpen, adb, n1, n2, c) IN
        /\ stages' = stages \o t.stages
        /\ methods' = t.methods
        /\ chmods' = chmods + t.chmods
        /\ logged' = logged \cup t.logged
        /\ Exit(t.exit, errorMsg)
    /\ UNCHANGED <<argVars, dfVars, extVars, fileVars, envVars, pollVars, apk_file, downloaded_file>>

DeliverNext ==
    \/ DeliverNotifyPolling
    \/ ShellPollStart
    \/ ShellPollIteration
    \/ ShellPollTimeout
    \/ DeliverNotifyComplete
    \/ DeliverDownload
    \/ DeliverAfterDownload

----------------------------------------------------------------------------
(* trigger_ci.js: pollGitHubActions, pollCodemagic, pollEAS *)

TriggerCi == prog = "trigger_ci"

\* const maxAttempts = maxWaitMinutes * 2
maxAttempts(m) == m * 2

\* for (let attempt = 1; attempt <= maxAttempts; attempt++)
JsLoopRuns(a, m) == a <= maxAttempts(m)

Returns(url) == [kind |-> "return", msg |-> "", url |-> url]
Throws(msg)  == [kind |-> "throw", msg |-> msg, url |-> "none"]
Waits        == [kind |-> "wait", msg |-> "", url |-> "none"]

\* execSync of the status command threw, or JSON.parse of its output did
TransientMsg == "status query failed"

\* The try block of pollGitHubActions on reply r.  artOk: the artifacts
\* query of the success branch ran; its --jq prints "null" without artifacts.
pollGitHubActions_try(r, artOk) ==
    IF r = QueryError THEN Throws(TransientMsg)
    ELSE IF r.status = "completed" THEN
        IF r.conclusion = "success" THEN
            IF ~artOk THEN Throws(TransientMsg)
            ELSE Returns(IF r.artifact THEN "url" ELSE "null")
        ELSE Throws("Build failed with conclusion")
    ELSE Waits

\* The try block of pollCodemagic: result.artefacts?.[0]?.url || null
pollCodemagic_try(r) ==
    IF r = QueryError THEN Throws(TransientMsg)
    ELSE IF r.status = "finished" THEN
        IF r.conclusion = "success"
        THEN Returns(IF r.artifact THEN "url" ELSE "null")
        ELSE Throws("Codemagic build failed")
    ELSE Waits

\* The try block of pollEAS
pollEAS_try(r) ==
    IF r = QueryError THEN Throws(TransientMsg)
    ELSE IF r.status = "finished" THEN
        IF r.artifact THEN Returns("url")
        ELSE Throws("EAS build finished but no artifact URL found")
    ELSE IF r.status \in {"errored", "canceled"} THEN Throws("EAS build failed")
    ELSE Waits

JsPollTry(p, r, artOk) ==
    IF p = "github" THEN pollGitHubActions_try(r, artOk)
    ELSE IF p = "codemagic" THEN pollCodemagic_try(r)
    ELSE pollEAS_try(r)

\* catch (error) { if (attempt === maxAttempts) throw error; ...wait... }
JsCatchRethrows(a, m) == a = maxAttempts(m)

BuildFailedMsgs ==
    {"Build failed with conclusion", "Codemagic build failed", "EAS build failed"}

\* the poller state a thrown error leaves
ThrownState(msg) ==
    IF msg \in BuildFailedMsgs THEN "Failed"
    ELSE IF msg = "Build did not complete within" THEN "TimedOut"
    ELSE "Error"

\* main: the trigger call returned a handle and --poll was given;
\* pollCodemagic throws at once without CODEMAGIC_ACCESS_TOKEN.
JsPollStart ==
    /\ TriggerCi /\ pc = "main"
    /\ stages' = Append(stages, "poll")
    /\ \E tokenOk \in BOOLEAN :
        IF CI_PROVIDER = "codemagic" /\ ~tokenOk
        THEN /\ credential' = "absent"
             /\ UNCHANGED <<pollState, attempt>>
             /\ Exit(1, "CODEMAGIC_ACCESS_TOKEN environment variable required")
        ELSE /\ credential' = "present"
             /\ pollState' = "Polling" /\ attempt' = 1
             /\ Continue("polling")
    /\ UNCHANGED <<argVars, dfVars, unzipVars, agentVars, fixVars, moreVars, requests, handle, fileVars, envVars, build, attempts, queries, sleeps, observed, last,
                   artifactUrl, apk_file, downloaded_file, methods, chmods, logged>>

\* one iteration of the for loop: try block, then catch
JsPollIteration ==
    /\ TriggerCi /\ pc = "polling"
    /\ JsLoopRuns(attempt, maxWaitMinutes)
    /\ \E q \in QueryReplies(CI_PROVIDER, build), artOk \in BOOLEAN :
        /\ build' = q.build
        /\ last' = q.reply
        /\ observed' = observed \cup {q.reply}
        /\ queries' = queries + 1
        /\ LET t == JsPollTry(CI_PROVIDER, q.reply, artOk) IN
            IF t.kind = "return" THEN
                /\ pollState' = "Succeeded" /\ artifactUrl' = t.url
                /\ UNCHANGED <<attempt, sleeps>>
                /\ Exit(0, errorMsg)
            ELSE IF t.kind = "throw" /\ JsCatchRethrows(attempt, maxWaitMinutes) THEN
                /\ pollState' = ThrownState(t.msg)
                /\ UNCHANGED <<attempt, sleeps, artifactUrl>>
                /\ Exit(1, t.msg)
            ELSE
                /\ attempt' = attempt + 1 /\ sleeps' = sleeps + 1
                /\ UNCHANGED <<pollState, artifactUrl>>
                /\ Continue(pc)
    /\ UNCHANGED <<argVars, dfVars, extVars, fileVars, envVars, attempts, pipeVars, logged>>

\* after the loop: throw new Error(`Build did not complete within ...`)
JsPollTimeout ==
    /\ TriggerCi /\ pc = "polling"
    /\ ~JsLoopRuns(attempt, maxWaitMinutes)
    /\ pollState' = ThrownState("Build did not complete within")
    /\ Exit(1, "Build did not complete within")
    /\ UNCHANGED <<argVars, dfVars, extVars, fileVars, envVars, build, attempts, attempt, queries, sleeps, observed,
                   last, artifactUrl, pipeVars, logged>>

TriggerCiNext ==
    \/ JsPollStart
    \/ JsPollIteration
    \/ JsPollTimeout

----------------------------------------------------------------------------
(* trigger_ci.js without --poll: the trigger functions *)

Trigger == prog = "trigger"

\* run: the build the id in the handle names, the one this call dispatched
\* ("own") or one that somebody else created ("other")
NoHandle == [provider |-> "none", run |-> "none"]
BuildHandle(p, run) == [provider |-> p, run |-> run]

\* The run that .workflow_runs[0] of the repository is when it is read: the
\* dispatch creates its run some time later, and other dispatches and pushes
\* create runs of their own.
LatestRuns == {"own", "other"}

\* What the provider does with the dispatch: it accepts it and the build id
\* can be read back, it accepts it and no id can be read, or it refuses.
DispatchOutcomes == {"id", "no-id", "refused"}

Triggered(p, n, run) == [kind |-> "return", msg |-> "", requests |-> n,
                         handle |-> BuildHandle(p, run)]
TriggerFails(msg, n) == [kind |-> "throw", msg |-> msg, requests |-> n,
                         handle |-> NoHandle]

\* triggerGitHubActions: gh --version, workflow dispatch, then the id of the
\* latest run
triggerGitHubActions(toolOk, o, latest) ==
    IF ~toolOk THEN TriggerFails("GitHub Actions trigger failed", 0)
    ELSE IF o = "refused" THEN TriggerFails("GitHub Actions trigger failed", 1)
    ELSE IF o = "no-id" THEN TriggerFails("GitHub Actions trigger failed", 2)
    ELSE Triggered("github", 2, latest)

\* triggerCodemagic: both environment variables, then POST /builds
triggerCodemagic(toolOk, o) ==
    IF ~toolOk THEN TriggerFails("Codemagic trigger failed", 0)
    ELSE IF o = "id" THEN Triggered("codemagic", 1, "own")
    ELSE TriggerFails("Codemagic trigger failed", 1)

\* triggerEAS: eas --version, eas build, then the line holding 'Build ID:'
triggerEAS(toolOk, o) ==
    IF ~toolOk THEN TriggerFails("EAS trigger failed", 0)
    ELSE IF o = "id" THEN Triggered("eas", 1, "own")
    ELSE TriggerFails("EAS trigger failed", 1)

TriggerPlan(p, toolOk, o, latest) ==
    IF p = "github" THEN triggerGitHubActions(toolOk, o, latest)
    ELSE IF p = "codemagic" THEN triggerCodemagic(toolOk, o)
    ELSE triggerEAS(toolOk, o)

\* main without --poll: --repo is required for github and codemagic; the
\* trigger function runs; the handle is printed, or the catch reports the
\* error and exits 1.
TriggerRun ==
    /\ Trigger /\ pc = "main"
    /\ stages' = Append(stages, "trigger")
    /\ \E repoGiven \in BOOLEAN, toolOk \in BOOLEAN, o \in DispatchOutcomes,
          latest \in LatestRuns :
        IF ~repoGiven /\ CI_PROVIDER # "eas"
        THEN /\ UNCHANGED credVars
             /\ Exit(1, "--repo required")
        ELSE LET t == TriggerPlan(CI_PROVIDER, toolOk, o, latest) IN
             /\ credential' = Credential(toolOk)
             /\ requests' = t.requests
             /\ handle' = t.handle
             /\ IF t.kind = "throw" THEN Exit(1, t.msg) ELSE Exit(0, errorMsg)
    /\ UNCHANGED <<argVars, dfVars, unzipVars, agentVars, fixVars, moreVars, fileVars, envVars, pollVars, apk_file,
                   downloaded_file, methods, chmods, logged>>

----------------------------------------------------------------------------
(* ci/download_artifact.js (--provider) and download_artifact.js *)

CiDownload == prog = "ci_download_artifact"
Download   == prog = "download_artifact"

\* fetch from the artifact URL / fetch the artifact by its id through gh api
FetchUrl   == [kind |-> "fetch", msg |-> "", locator |-> "url"]
FetchById  == [kind |-> "fetch", msg |-> "", locator |-> "artifact-id"]
Fails(msg) == [kind |-> "throw", msg |-> msg, locator |-> "none"]

\* downloadGitHubArtifact: .artifacts[0] of the run, whatever its status
downloadGitHubArtifact(r) ==
    IF r = QueryError THEN Fails("GitHub artifact download failed")
    ELSE IF ~r.artifact THEN Fails("No artifacts found for this run")
    ELSE FetchUrl

\* variant: the token is not checked before the build is read
downloadCodemagicArtifact_unchecked(r, tokenOk) ==
    IF r = QueryError THEN Fails("Codemagic artifact download failed")
    ELSE IF ~r.artifact THEN Fails("No artifacts found for this build")
    ELSE FetchUrl

\* downloadCodemagicArtifact: buildInfo.artefacts[0], whatever the status
downloadCodemagicArtifact(r, tokenOk) ==
    IF ~tokenOk THEN Fails("CODEMAGIC_ACCESS_TOKEN environment variable required")
    ELSE IF r = QueryError THEN Fails("Codemagic artifact download failed")
    ELSE IF ~r.artifact THEN Fails("No artifacts found for this build")
    ELSE FetchUrl

\* downloadEASArtifact: buildInfo.artifacts.buildUrl
downloadEASArtifact(r) ==
    IF r = QueryError THEN Fails("EAS artifact download failed")
    ELSE IF ~r.artifact THEN Fails("No build URL found for this build")
    ELSE FetchUrl

\* downloadFromGitHub: gh --version, then the run's artifacts by id
downloadFromGitHub(r, toolOk) ==
    IF ~toolOk \/ r = QueryError THEN Fails("GitHub artifact download failed")
    ELSE IF ~r.artifact THEN Fails("No artifacts found for this run")
    ELSE FetchById

\* downloadFromCodemagic: build.status must be 'finished'; success is not read
downloadFromCodemagic(r, tokenOk) ==
    IF ~tokenOk THEN Fails("CODEMAGIC_ACCESS_TOKEN not set")
    ELSE IF r = QueryError THEN Fails("Build not found or access denied")
    ELSE IF r.status # "finished" THEN Fails("Build not finished")
    ELSE IF ~r.artifact THEN Fails("No APK artifact found in build")
    ELSE FetchUrl

\* downloadFromEAS: eas --version, status must be 'finished'
downloadFromEAS(r, toolOk) ==
    IF ~toolOk \/ r = QueryError THEN Fails("EAS artifact download failed")
    ELSE IF r.status # "finished" THEN Fails("Build not finished")
    ELSE IF ~r.artifact THEN Fails("No build artifact URL found")
    ELSE FetchUrl

CiDownloadPlan(p, r, toolOk) ==
    IF p = "github" THEN downloadGitHubArtifact(r)
    ELSE IF p = "codemagic" THEN downloadCodemagicArtifact(r, toolOk)
    ELSE downloadEASArtifact(r)

DownloadPlan(p, r, toolOk) ==
    IF p = "github" THEN downloadFromGitHub(r, toolOk)
    ELSE IF p = "codemagic" THEN downloadFromCodemagic(r, toolOk)
    ELSE downloadFromEAS(r, toolOk)

\* Extensions an artifact path may have; "" is a path without extension.
ArtifactExts == {".apk", ".APK", ".ipa", ".aab", ".zip", ""}

\* String.prototype.toLowerCase on the extensions above
toLowerCase(e) == IF e = ".APK" THEN ".apk" ELSE e

\* variant: the extension is compared as it is spelled
validateArtifact_case_sensitive(exists, size, ext) ==
    IF ~exists THEN [result |-> "Artifact file not found", warned |-> FALSE]
    ELSE IF size = 0 THEN [result |-> "Artifact file is empty", warned |-> FALSE]
    ELSE [result |-> "passed", warned |-> ext \notin {".apk", ".ipa", ".aab"}]

\* validateArtifact(filePath): existsSync, then statSync().size, then the
\* extension, which only logs a warning; returns true or throws.
validateArtifact(exists, size, ext) ==
    IF ~exists THEN [result |-> "Artifact file not found", warned |-> FALSE]
    ELSE IF size = 0 THEN [result |-> "Artifact file is empty", warned |-> FALSE]
    ELSE [result |-> "passed",
          warned |-> toLowerCase(ext) \notin {".apk", ".ipa", ".aab"}]

\* What the read of the build answers: gh and eas are the only channel to
\* their provider, so without the CLI execSync throws; curl is always there.
CliReplies(p, toolOk, b) ==
    IF p # "codemagic" /\ ~toolOk THEN {QueryError} ELSE {b, QueryError}

\* The errors thrown by the checks of process.env.CODEMAGIC_ACCESS_TOKEN
TokenRequiredMsgs ==
    {"CODEMAGIC_ACCESS_TOKEN environment variable required",
     "CODEMAGIC_ACCESS_TOKEN not set"}

\* Commands of one download that reached the provider: the read of the
\* build (curl unless the token check threw before it; gh or eas when
\* installed) and the fetch of the file.
DownloadRequests(p, d, toolOk, fetched) ==
    (IF p = "codemagic"
     THEN (IF d.msg \in TokenRequiredMsgs THEN 0 ELSE 1)
     ELSE (IF toolOk THEN 1 ELSE 0))
    + (IF d.kind = "fetch" THEN 1 ELSE 0)

\* variant: the arguments are not looked at
ArgsError_unchecked(plan, args) == ""

\* main without any argument.  download_artifact.js: args.length < 2 prints
\* the usage and exits 1.  ci/download_artifact.js: the provider defaults
\* to 'github', repo and runId are null, and the case throws.
ArgsError(plan, args) ==
    IF args # "none" THEN ""
    ELSE IF plan = "ci" THEN "--repo and --run-id required for GitHub downloads"
    ELSE "Usage: node download_artifact.js <provider> <build-id> [options]"

\* a run that ends at the check of the arguments
RunWithoutArgs(plan) ==
    /\ pc = "main"
    /\ ArgsError(plan, argv) # ""
    /\ Exit(1, ArgsError(plan, argv))
    /\ UNCHANGED <<argVars, envVars, pollVars, pipeVars, fileVars, dfVars, extVars,
                   logged>>

\* One run of a download script on a build in any state: the provider's
\* download function reads the build (the read may fail), then fetches from
\* the artifact URL (which may fail).  On any thrown error main exits 1.
\* After the fetch ci/download_artifact.js exits 0; download_artifact.js
\* goes on to validateArtifact(result.artifactPath), the path being any
\* the download and extraction may have left.
RunDownload(plan) ==
    /\ pc = "main"
    /\ ArgsError(plan, argv) = ""
    /\ stages' = Append(stages, "download")
    /\ \E toolOk \in BOOLEAN, fetched \in BOOLEAN :
       \E reply \in CliReplies(CI_PROVIDER, toolOk, build) :
        /\ build' = build
        /\ last' = reply
        /\ credential' = Credential(toolOk)
        /\ handle' = handle
        /\ LET d == IF plan = "ci" THEN CiDownloadPlan(CI_PROVIDER, reply, toolOk)
                    ELSE DownloadPlan(CI_PROVIDER, reply, toolOk) IN
           /\ requests' = DownloadRequests(CI_PROVIDER, d, toolOk, fetched)
           /\
            IF d.kind = "throw" THEN
                /\ UNCHANGED <<artifactUrl, downloaded_file, file_exists, file_size,
                               file_ext>>
                /\ Exit(1, d.msg)
            ELSE IF ~fetched THEN
                /\ artifactUrl' = d.locator
                /\ UNCHANGED <<downloaded_file, file_exists, file_size, file_ext>>
                /\ Exit(1, "download failed")
            ELSE IF plan = "ci" THEN
                /\ artifactUrl' = d.locator
                /\ \E f \in DownloadedFiles : downloaded_file' = f
                /\ file_exists' = TRUE
                /\ file_size' \in 0..MaxFileSize
                /\ file_ext' = file_ext
                /\ Exit(0, errorMsg)
            ELSE
                /\ artifactUrl' = d.locator
                /\ \E e \in ArtifactExts, x \in BOOLEAN :
                    /\ downloaded_file' = "artifact" \o e
                    /\ file_ext' = e
                    /\ file_exists' = x
                    /\ file_size' \in (IF x THEN 0..MaxFileSize ELSE {0})
                /\ Continue("validate")
    /\ UNCHANGED <<argVars, dfVars, unzipVars, agentVars, fixVars, moreVars, validation, warned, envVars, attempts, attempt, queries,
                   sleeps, observed, pollState, apk_file, methods, chmods, logged>>

\* main of download_artifact.js: downloader.validateArtifact(result.artifactPath);
\* a throw is caught by main, which exits 1; otherwise main ends, exit 0.
DownloadValidate ==
    /\ Download /\ pc = "validate"
    /\ LET v == validateArtifact(file_exists, file_size, file_ext) IN
        /\ validation' = v.result
        /\ warned' = v.warned
        /\ IF v.result = "passed" THEN Exit(0, errorMsg) ELSE Exit(1, v.result)
    /\ UNCHANGED <<argVars, dfVars, extVars, envVars, pollVars, pipeVars, file_exists, file_size,
                   file_ext, logged>>

CiDownloadRun == CiDownload /\ RunDownload("ci")

DownloadRun == Download /\ RunDownload("positional")

CiDownloadNoArgs == CiDownload /\ RunWithoutArgs("ci")

DownloadNoArgs == Download /\ RunWithoutArgs("positional")

----------------------------------------------------------------------------
(* auto_install.sh *)

AutoInstall == prog = "auto_install"

\* variant: grep "device" without the anchor also matches the header line
\* "List of devices attached"
check_adb_status_unanchored(ad) == ad \in {"nodevice", "unauthorized", "ok", "fail"}

\* check_adb_status: adb installed, `adb version` and `adb devices` work, and
\* a line of the device list ends in "device"
check_adb_status(ad) == ad \in {"ok", "fail"}

\* variant: the result of adb install -r is not looked at
install_via_adb_ignores_result(ad) ==
    IF ~check_adb_status(ad) THEN [ret |-> 1, methods |-> <<>>]
    ELSE [ret |-> 0, methods |-> <<"adb">>]

\* install_via_adb: 0 iff the status check passed and adb install -r exited 0
install_via_adb(ad) ==
    IF ~check_adb_status(ad) THEN [ret |-> 1, methods |-> <<>>]
    ELSE IF ad = "ok" THEN [ret |-> 0, methods |-> <<"adb">>]
    ELSE [ret |-> 1, methods |-> <<"adb">>]

\* install_via_termux_open: 1 if termux-open is not installed or fails
install_via_termux_open(to) ==
    IF to = "absent" THEN [ret |-> 1, methods |-> <<>>]
    ELSE IF to = "ok" THEN [ret |-> 0, methods |-> <<"termux-open">>]
    ELSE [ret |-> 1, methods |-> <<"termux-open">>]

\* if command -v termux-notification ...; then termux-notification ...; fi
\* under set -e, then exit 0
AiNotifyAndExit0 ==
    \E n \in NotifyOutcomes(FALSE, notifier) :
        IF n = "error"
        THEN \E c \in NotifierFailCodes : Exit(c, errorMsg)
        ELSE Exit(0, errorMsg)

\* check_apk_file "$APK_FILE"
AiCheckApkFile ==
    /\ AutoInstall /\ pc = "main"
    /\ IF downloaded_file = ""
       THEN Exit(1, "APK file not found")
       ELSE Continue("set_permissions")
    /\ UNCHANGED <<argVars, dfVars, extVars, fileVars, envVars, pollVars, pipeVars, logged>>

\* variant: chmod is never called
set_permissions_never(noPermissions, chmodOk) ==
    [chmods |-> 0, logged |-> {}]

\* set_permissions: with --no-permissions return 0 at once; otherwise one
\* chmod 644, whose failure is logged as a warning
set_permissions(noPermissions, chmodOk) ==
    IF noPermissions THEN [chmods |-> 0, logged |-> {}]
    ELSE [chmods |-> 1,
          logged |-> IF chmodOk THEN {} ELSE {"Warning: Failed to set permissions"}]

\* set_permissions "$APK_FILE" in main
AiSetPermissions ==
    /\ AutoInstall /\ pc = "set_permissions"
    /\ \E chmodOk \in BOOLEAN :
        LET r == set_permissions(NO_PERMISSIONS, chmodOk) IN
        /\ chmods' = chmods + r.chmods
        /\ logged' = logged \cup r.logged
    /\ Continue(IF FORCE_ADB THEN "force_adb" ELSE "termux_open")
    /\ UNCHANGED <<argVars, dfVars, extVars, fileVars, envVars, pollVars, stages, apk_file,
                   downloaded_file, methods>>

\* if [ "$FORCE_ADB" = true ]: install_via_adb, exit 0 on success
AiForceAdb ==
    /\ AutoInstall /\ pc = "force_adb"
    /\ LET r == install_via_adb(adb) IN
        /\ methods' = methods \o r.methods
        /\ IF r.ret = 0 THEN Exit(0, errorMsg) ELSE Continue("termux_open")
    /\ UNCHANGED <<argVars, dfVars, extVars, fileVars, envVars, pollVars, stages, apk_file, downloaded_file,
                   chmods, logged>>

\* if install_via_termux_open: notification, exit 0
AiTermuxOpen ==
    /\ AutoInstall /\ pc = "termux_open"
    /\ LET r == install_via_termux_open(termuxOpen) IN
        /\ methods' = methods \o r.methods
        /\ IF r.ret = 0 THEN AiNotifyAndExit0 ELSE Continue("adb")
    /\ UNCHANGED <<argVars, dfVars, extVars, fileVars, envVars, pollVars, stages, apk_file, downloaded_file,
                   chmods, logged>>

\* if install_via_adb: notification, exit 0
AiAdb ==
    /\ AutoInstall /\ pc = "adb"
    /\ LET r == install_via_adb(adb) IN
        /\ methods' = methods \o r.methods
        /\ IF r.ret = 0 THEN AiNotifyAndExit0 ELSE Continue("manual")
    /\ UNCHANGED <<argVars, dfVars, extVars, fileVars, envVars, pollVars, stages, apk_file, downloaded_file,
                   chmods, logged>>

\* manual_fallback "$APK_FILE"; exit 1.  The notification comes before the
\* instructions and runs under set -e.
AiManualFallback ==
    /\ AutoInstall /\ pc = "manual"
    /\ methods' = Append(methods, "manual")
    /\ \E n \in NotifyOutcomes(FALSE, notifier) :
        IF n = "error"
        THEN /\ logged' = logged
             /\ \E c \in NotifierFailCodes : Exit(c, errorMsg)
        ELSE /\ logged' = logged \cup {"Manual Installation Instructions"}
             /\ Exit(1, errorMsg)
    /\ UNCHANGED <<argVars, dfVars, extVars, fileVars, envVars, pollVars, stages, apk_file, downloaded_file, chmods>>

AutoInstallNext ==
    \/ AiCheckApkFile
    \/ AiSetPermissions
    \/ AiForceAdb
    \/ AiTermuxOpen
    \/ AiAdb
    \/ AiManualFallback

----------------------------------------------------------------------------
(* ci/download_artifact.js: downloadFile(url, outputPath, headers) *)

DownloadFile == prog = "downloadFile"

\* Response status codes; 0 stands for a transport error ('error' on the
\* request) instead of a response.
ResponseStatuses == {0, 200, 204, 206, 301, 302, 303, 404, 500}

\* variant: a server error is answered by a new request as well
IsRedirect_or_server_error(status) == status \in {301, 302, 500}

\* response.statusCode === 302 || response.statusCode === 301
IsRedirect(status) == status = 302 \/ status = 301

\* client.get(url, { headers }, ...) with request.setTimeout armed; the
\* promise of this call is pending.  status -1: no response yet.
NewHop(headers) ==
    [state |-> "sent", status |-> -1, idle |-> 0, headers |-> headers,
     promise |-> "pending"]

\* The request still holds its socket, so its idle timer is armed: no
\* response yet, a response whose body nobody reads (redirect, non-200), or
\* a body being received.
Live(hop) == hop.state \in {"sent", "redirected", "unread", "receiving"}

\* resolve / reject called in the call of hop k with outcome o.  A settled
\* promise stays as it is; the .then(resolve).catch(reject) of each redirect
\* branch hands the outcome to every outer promise that is still pending.
Settle(hs, k, o) ==
    [j \in 1..Len(hs) |->
        IF j <= k /\ hs[k].promise = "pending" /\ hs[j].promise = "pending"
        THEN [hs[j] EXCEPT !.promise = o]
        ELSE hs[j]]

\* variant: a connection closed before the end of the body ends the stream
ResponseEnds_on_close(state, rcv, len) ==
    state \in {"receiving", "aborted"}

\* The response stream ends, so the pipe ends the file stream and 'finish'
\* follows: the declared body has arrived whole.  A connection closed
\* early destroys the response without 'end'.
ResponseEnds(state, rcv, len) ==
    state = "receiving" /\ rcv = len

\* frame of the downloadFile actions
dfFrame == <<argVars, envVars, pollVars, pipeVars, extVars, file_ext, validation,
             warned, errorMsg, logged, exitCode>>

\* the call downloadFile(url, outputPath, headers)
DfRequest ==
    /\ DownloadFile /\ pc = "main"
    /\ \E h \in {"none", "Authorization"} : hops' = <<NewHop(h)>>
    /\ pc' = "running"
    /\ UNCHANGED <<dfFrame, received, contentLength, file_exists, file_size>>

\* the response callback of the latest request, or its 'error' event
DfResponse ==
    /\ DownloadFile /\ pc = "running"
    /\ LET k == Len(hops) IN
        /\ hops[k].state = "sent"
        /\ \E status \in ResponseStatuses, n \in 0..MaxFileSize, location \in BOOLEAN :
            LET got == [hops EXCEPT ![k].status = status, ![k].idle = 0] IN
            IF status = 0 THEN
                /\ hops' = Settle([got EXCEPT ![k].state = "errored"], k, "error")
                /\ UNCHANGED <<received, contentLength, file_exists, file_size>>
            ELSE IF IsRedirect(status) THEN
                /\ k < MaxHops
                /\ LET next == Append([got EXCEPT ![k].state = "redirected"],
                                      NewHop(hops[k].headers)) IN
                    hops' = IF location THEN next
                            ELSE Settle([next EXCEPT ![k + 1].state = "errored"],
                                        k + 1, "error")
                /\ UNCHANGED <<received, contentLength, file_exists, file_size>>
            ELSE IF status # 200 THEN
                /\ hops' = Settle([got EXCEPT ![k].state = "unread"], k, "http")
                /\ UNCHANGED <<received, contentLength, file_exists, file_size>>
            ELSE
                /\ hops' = [got EXCEPT ![k].state = "receiving"]
                /\ file_exists' = TRUE
                /\ file_size' = 0
                /\ contentLength' = n
                /\ received' = 0
    /\ UNCHANGED <<dfFrame, pc>>

\* response.on('data'): one chunk arrives and is piped to the file
DfData ==
    /\ DownloadFile /\ pc = "running"
    /\ LET k == Len(hops) IN
        /\ hops[k].state = "receiving"
        /\ received < contentLength
        /\ received' = received + 1
        /\ file_size' = file_size + 1
        /\ hops' = [hops EXCEPT ![k].idle = 0]
    /\ UNCHANGED <<dfFrame, pc, contentLength, file_exists>>

\* the server or the network closes the connection before the whole body
DfPrematureClose ==
    /\ DownloadFile /\ pc = "running"
    /\ LET k == Len(hops) IN
        /\ hops[k].state = "receiving"
        /\ received < contentLength
        /\ hops' = [hops EXCEPT ![k].state = "aborted"]
    /\ UNCHANGED <<dfFrame, pc, received, contentLength, file_exists, file_size>>

\* fileStream.on('finish'): resolve(outputPath)
DfFinish ==
    /\ DownloadFile /\ pc = "running"
    /\ LET k == Len(hops) IN
        /\ ResponseEnds(hops[k].state, received, contentLength)
        /\ hops' = Settle([hops EXCEPT ![k].state = "ended"], k, "resolved")
    /\ UNCHANGED <<dfFrame, pc, received, contentLength, file_exists, file_size>>

\* fileStream.on('error', reject)
DfFileError ==
    /\ DownloadFile /\ pc = "running"
    /\ LET k == Len(hops) IN
        /\ hops[k].state = "receiving"
        /\ hops' = Settle([hops EXCEPT ![k].state = "errored"], k, "error")
    /\ UNCHANGED <<dfFrame, pc, received, contentLength, file_exists, file_size>>

\* one tick of time on which no socket sees traffic; a timer that is due
\* fires before more time passes
DfTick ==
    /\ DownloadFile /\ pc = "running"
    /\ \E k \in 1..Len(hops) : Live(hops[k])
    /\ \A k \in 1..Len(hops) : Live(hops[k]) => hops[k].idle < TimeoutTicks
    /\ hops' = [k \in 1..Len(hops) |->
                    IF Live(hops[k]) THEN [hops[k] EXCEPT !.idle = @ + 1] ELSE hops[k]]
    /\ UNCHANGED <<dfFrame, pc, received, contentLength, file_exists, file_size>>

\* request.setTimeout(300000, () => { request.destroy(); reject(...) }) of
\* any request whose socket has been idle for the whole time
DfTimeout ==
    /\ DownloadFile /\ pc = "running"
    /\ \E k \in 1..Len(hops) :
        /\ Live(hops[k])
        /\ hops[k].idle = TimeoutTicks
        /\ hops' = Settle([hops EXCEPT ![k].state = "timedout"], k, "timeout")
    /\ UNCHANGED <<dfFrame, pc, received, contentLength, file_exists, file_size>>

\* the server closes a connection whose response nobody reads
DfServerClose ==
    /\ DownloadFile /\ pc = "running"
    /\ \E k \in 1..Len(hops) :
        /\ hops[k].state \in {"redirected", "unread"}
        /\ hops' = [hops EXCEPT ![k].state = "closed"]
    /\ UNCHANGED <<dfFrame, pc, received, contentLength, file_exists, file_size>>

DownloadFileNext ==
    \/ DfRequest
    \/ DfResponse
    \/ DfData
    \/ DfPrematureClose
    \/ DfFinish
    \/ DfFileError
    \/ DfTick
    \/ DfTimeout
    \/ DfServerClose

----------------------------------------------------------------------------
(* The agent runners: runGemini, runClaude, runContinue, runSWEAgent *)

RunAgent == prog = "runAgent"

Agents == {"Gemini", "Claude", "Continue", "SWE-Agent"}

\* A call of the CLI: it exits 0 with output the runner accepts, it exits 0
\* with output that processOutput rejects (format 'json': JSON.parse or the
\* schema validation throws), or execa throws.  runContinue returns
\* stdout.trim() and parseOutput of the SWE-Agent catches its own errors.
CliOutcomes(a) ==
    {"ok", "error"} \cup (IF a \in {"Gemini", "Claude"} THEN {"rejected"} ELSE {})

\* the delay before the next attempt, in seconds
Backoff(a, n) ==
    IF a \in {"Gemini", "Claude"} THEN 2 ^ n
    ELSE IF a = "Continue" THEN 2 * n
    ELSE 5 * n

NotAvailable(a) ==
    IF a = "SWE-Agent" THEN "SWE-Agent not available" ELSE a \o " CLI not available"

FailedAfter(a, r) == a \o " failed after " \o ToString(r) \o " attempts"

\* variant: the throw comes one attempt late
LastAttempt_late(n, r) == n = r + 1

\* if (attempt === config.retries)
LastAttempt(n, r) == n = r

\* frame of the actions of the agents
agentFrame == <<argVars, envVars, build, attempts, queries, sleeps, observed, last,
                pollState, artifactUrl, apk_file, downloaded_file, methods, chmods,
                fileVars, dfVars, unzipVars, credVars, moreVars, logged, exitCode>>

\* the runner up to the loop: checkAvailable, then attempt = 1 if the loop
\* condition attempt <= config.retries holds; otherwise the function ends
RunAgentStart ==
    /\ RunAgent /\ pc = "main"
    /\ \E available \in BOOLEAN :
        IF ~available THEN
            /\ outcome' = "thrown" /\ errorMsg' = NotAvailable(agent)
            /\ pc' = "done" /\ attempt' = attempt
        ELSE IF 1 <= retries THEN
            /\ attempt' = 1 /\ pc' = "attempt"
            /\ UNCHANGED <<outcome, errorMsg>>
        ELSE
            /\ outcome' = "returned" /\ pc' = "done"
            /\ UNCHANGED <<attempt, errorMsg>>
    /\ UNCHANGED <<agentFrame, fixVars, stages, agent, retries, invocations, delays,
                   cli, fallback>>

\* the try block of one iteration, and the catch block up to the delay
RunAgentAttempt ==
    /\ RunAgent /\ pc = "attempt"
    /\ invocations' = invocations + 1
    /\ \E o \in CliOutcomes(agent) :
        /\ cli' = o
        /\ IF o = "ok" THEN
               /\ outcome' = "returned" /\ pc' = "done" /\ errorMsg' = errorMsg
           ELSE IF LastAttempt(attempt, retries) THEN
               /\ outcome' = "thrown" /\ pc' = "done"
               /\ errorMsg' = FailedAfter(agent, retries)
           ELSE
               /\ pc' = "delay" /\ UNCHANGED <<outcome, errorMsg>>
    /\ UNCHANGED <<agentFrame, fixVars, stages, agent, retries, attempt, delays,
                   fallback>>

\* await new Promise(resolve => setTimeout(resolve, delay)), then attempt++
RunAgentDelay ==
    /\ RunAgent /\ pc = "delay"
    /\ delays' = Append(delays, Backoff(agent, attempt))
    /\ attempt' = attempt + 1
    /\ pc' = "attempt"
    /\ UNCHANGED <<agentFrame, fixVars, stages, agent, retries, invocations, cli,
                   fallback, outcome, errorMsg>>

RunAgentNext ==
    \/ RunAgentStart
    \/ RunAgentAttempt
    \/ RunAgentDelay

----------------------------------------------------------------------------
(* OrchestatorAgents: createAppSpec and autoFix *)

CreateAppSpec == prog = "createAppSpec"
AutoFix == prog = "autoFix"

\* gemini.checkAvailable() is false, generateAppSpec throws, or it returns
GeminiOutcomes == {"unavailable", "error", "ok"}
\* claude.runClaude throws or returns
ClaudeOutcomes == {"error", "ok"}

\* variant: without Gemini nothing else is tried
createAppSpec_no_fallback(g, c) ==
    IF g = "ok"
    THEN [invoked |-> <<"gemini">>, outcome |-> "returned", from |-> "Gemini",
          fallback |-> "none", msg |-> ""]
    ELSE [invoked |-> IF g = "error" THEN <<"gemini">> ELSE <<>>,
          outcome |-> "thrown", from |-> "none", fallback |-> "none",
          msg |-> "Failed to create AppSpec with both Gemini and Claude"]

\* createAppSpec: generateAppSpec of Gemini if it is available; Claude
\* after the first try block ended without a return
createAppSpec(g, c) ==
    LET first == IF g = "unavailable" THEN <<>> ELSE <<"gemini">> IN
    IF g = "ok"
    THEN [invoked |-> first, outcome |-> "returned", from |-> "Gemini",
          fallback |-> "none", msg |-> ""]
    ELSE IF c = "ok"
    THEN [invoked |-> first \o <<"claude">>, outcome |-> "returned", from |-> "Claude",
          fallback |-> c, msg |-> ""]
    ELSE [invoked |-> first \o <<"claude">>, outcome |-> "thrown", from |-> "none",
          fallback |-> c,
          msg |-> "Failed to create AppSpec with both Gemini and Claude"]

CreateAppSpecRun ==
    /\ CreateAppSpec /\ pc = "main"
    /\ \E g \in GeminiOutcomes, c \in ClaudeOutcomes :
        LET r == createAppSpec(g, c) IN
        /\ cli' = g
        /\ fallback' = r.fallback
        /\ stages' = r.invoked
        /\ outcome' = r.outcome
        /\ agent' = r.from
        /\ errorMsg' = r.msg
    /\ pc' = "done"
    /\ UNCHANGED <<agentFrame, fixVars, attempt, retries, invocations, delays>>

\* options.fixLint, options.fixTests, options.improveQuality
OptionValues == {"undefined", "false", "true"}
FixOptions == [fixLint : OptionValues, fixTests : OptionValues,
               improveQuality : OptionValues]

\* A stage of the SWE-Agent throws, or returns a result with its changes
StageOutcomes ==
    {[throws |-> TRUE, changes |-> 0]}
    \cup {[throws |-> FALSE, changes |-> n] : n \in 0..MaxChanges}

Null == [null |-> TRUE, changes |-> 0]
StageResult(o) == [null |-> FALSE, changes |-> o.changes]

NoFixResults == [lint |-> Null, tests |-> Null, quality |-> Null, totalChanges |-> 0]

\* one inner try/catch of autoFix: the stage's result and its changes are
\* added unless the stage threw
FixStage(acc, enabled, name, o) ==
    IF ~enabled THEN acc
    ELSE IF o.throws THEN [acc EXCEPT !.ran = Append(@, name)]
    ELSE [ran |-> Append(acc.ran, name),
          res |-> [acc.res EXCEPT ![name] = StageResult(o),
                                  !.totalChanges = @ + o.changes]]

\* variant: the first stage that throws ends autoFix
autoFix_first_throw_ends(opts, lint, tests, quality) ==
    LET a0 == [ran |-> <<>>, res |-> NoFixResults]
        a1 == FixStage(a0, opts.fixLint # "false", "lint", lint)
        a2 == IF lint.throws /\ opts.fixLint # "false" THEN a1
              ELSE FixStage(a1, opts.fixTests # "false", "tests", tests)
    IN  IF (lint.throws /\ opts.fixLint # "false")
           \/ (tests.throws /\ opts.fixTests # "false") THEN a2
        ELSE FixStage(a2, opts.improveQuality = "true", "quality", quality)

\* autoFix: lint if options.fixLint !== false, tests if options.fixTests !==
\* false, quality if options.improveQuality
autoFix(opts, lint, tests, quality) ==
    LET a0 == [ran |-> <<>>, res |-> NoFixResults]
        a1 == FixStage(a0, opts.fixLint # "false", "lint", lint)
        a2 == FixStage(a1, opts.fixTests # "false", "tests", tests)
    IN  FixStage(a2, opts.improveQuality = "true", "quality", quality)

\* Stage outcomes of a run: a stage that is not run has no outcome to draw
StageOutcomesIf(enabled) ==
    IF enabled THEN StageOutcomes ELSE {[throws |-> FALSE, changes |-> 0]}

AutoFixRun ==
    /\ AutoFix /\ pc = "main"
    /\ \E lint \in StageOutcomesIf(fixOptions.fixLint # "false"),
          tests \in StageOutcomesIf(fixOptions.fixTests # "false"),
          quality \in StageOutcomesIf(fixOptions.improveQuality = "true") :
        LET r == autoFix(fixOptions, lint, tests, quality) IN
        /\ stages' = r.ran
        /\ fixResults' = r.res
        /\ logged' = logged
                \cup (IF lint.throws THEN {"Lint auto-fix failed"} ELSE {})
                \cup (IF tests.throws THEN {"Test auto-fix failed"} ELSE {})
                \cup (IF quality.throws THEN {"Quality improvement failed"} ELSE {})
    /\ outcome' = "returned"
    /\ pc' = "done"
    /\ UNCHANGED <<argVars, envVars, build, attempts, attempt, queries, sleeps, observed,
                   last, pollState, artifactUrl, apk_file, downloaded_file, methods,
                   chmods, fileVars, dfVars, unzipVars, credVars, exitCode, errorMsg,
                   fixOptions, agent, retries, invocations, delays, cli, fallback,
                   moreVars>>

----------------------------------------------------------------------------
(* OrchestatorAgents: implementFeature *)

ImplementFeature == prog = "implementFeature"

Categories == {"ui", "data", "integration"}

\* The calls of implementFeature that can throw, in the order of the code
FeatureSteps ==
    <<"createFeatureBranch", "implementFeature", "generateFeature", "writeFiles",
      "commitFeature">>

StepSet == {FeatureSteps[i] : i \in DOMAIN FeatureSteps}

FeatureReturned(steps) == [steps |-> steps, outcome |-> "returned", msg |-> ""]
FeatureThrown(steps)   == [steps |-> steps, outcome |-> "thrown",
                           msg |-> steps[Len(steps)]]

\* variant: the commit is made in a finally block
implementFeature_commits_anyway(cat, files, fails) ==
    IF fails = "createFeatureBranch" THEN FeatureThrown(<<"createFeatureBranch">>)
    ELSE IF fails = "implementFeature"
    THEN [FeatureThrown(<<"createFeatureBranch", "implementFeature">>)
             EXCEPT !.steps = @ \o <<"commitFeature">>]
    ELSE FeatureReturned(<<"createFeatureBranch", "implementFeature", "commitFeature">>)

\* implementFeature: the branch, Continue, then for category 'data' or
\* 'integration' Claude and the writing of additionalFiles.files if there
\* is such a list, then the commit; the catch logs and rethrows
implementFeature(cat, files, fails) ==
    LET s1 == <<"createFeatureBranch">>
        s2 == s1 \o <<"implementFeature">>
        complex == cat = "data" \/ cat = "integration"
        s3 == IF complex THEN s2 \o <<"generateFeature">> ELSE s2
        writes == complex /\ files
        s4 == IF writes THEN s3 \o <<"writeFiles">> ELSE s3
        s5 == s4 \o <<"commitFeature">>
    IN  IF fails = "createFeatureBranch" THEN FeatureThrown(s1)
        ELSE IF fails = "implementFeature" THEN FeatureThrown(s2)
        ELSE IF complex /\ fails = "generateFeature" THEN FeatureThrown(s3)
        ELSE IF writes /\ fails = "writeFiles" THEN FeatureThrown(s4)
        ELSE IF fails = "commitFeature" THEN FeatureThrown(s5)
        ELSE FeatureReturned(s5)

ImplementFeatureRun ==
    /\ ImplementFeature /\ pc = "main"
    /\ \E files \in BOOLEAN, fails \in StepSet \cup {"none"} :
        LET r == implementFeature(category, files, fails) IN
        /\ additionalFiles' = files
        /\ failedStep' = fails
        /\ stages' = r.steps
        /\ outcome' = r.outcome
        /\ errorMsg' = r.msg
    /\ pc' = "done"
    /\ UNCHANGED <<argVars, envVars, build, attempts, attempt, queries, sleeps, observed,
                   last, pollState, artifactUrl, apk_file, downloaded_file, methods,
                   chmods, fileVars, dfVars, unzipVars, credVars, fixVars, scaffVars,
                   logged, exitCode, category, agent, retries, invocations, delays,
                   cli, fallback>>

----------------------------------------------------------------------------
(* ProjectScaffolder: scaffoldProject, generateFromTemplate, runPostGeneration *)

ScaffoldProject == prog = "scaffoldProject"

\* appSpec.framework: the keys of supportedFrameworks, or anything else
Frameworks == {"react-native", "flutter", "compose", "ionic", "unsupported"}
Supported(f) == f # "unsupported"

\* the working directory of the process when scaffoldProject is called
StartDir == "startDir"
OutputDir == "outputDir"

\* frame of the actions of the scaffolder
scaffFrame == <<argVars, envVars, pollVars, pipeVars, fileVars, dfVars, unzipVars,
                credVars, fixVars, category, additionalFiles, logged, exitCode,
                framework>>

\* scaffoldProject up to the call of runPostGeneration: validateAppSpec,
\* mkdir, the template files; any throw is logged and rethrown
ScaffoldGenerate ==
    /\ ScaffoldProject /\ pc = "main"
    /\ \E generated \in BOOLEAN :
        IF Supported(framework) /\ generated
        THEN /\ pc' = "runPostGeneration"
             /\ UNCHANGED <<outcome, errorMsg, failedStep>>
        ELSE /\ pc' = "done"
             /\ outcome' = "thrown"
             /\ failedStep' = "generateFromTemplate"
             /\ errorMsg' = "Scaffolding failed"
    /\ UNCHANGED <<scaffFrame, cwd, originalDir, agent, retries, invocations, delays,
                   cli, fallback>>

\* const originalDir = process.cwd(); try { process.chdir(outputDir)
PostGenChdir ==
    /\ ScaffoldProject /\ pc = "runPostGeneration"
    /\ originalDir' = cwd
    /\ \E ok \in BOOLEAN :
        IF ok
        THEN /\ cwd' = OutputDir /\ pc' = "setup" /\ failedStep' = failedStep
        ELSE /\ cwd' = cwd /\ pc' = "finally" /\ failedStep' = "chdir"
    /\ UNCHANGED <<scaffFrame, agentVars, errorMsg>>

\* for react-native: npm install, then generateEASConfig
PostGenSetup ==
    /\ ScaffoldProject /\ pc = "setup"
    /\ \E fails \in {"none", "npm install", "generateEASConfig"} :
        failedStep' = IF framework = "react-native" THEN fails ELSE "none"
    /\ pc' = "finally"
    /\ UNCHANGED <<scaffFrame, agentVars, errorMsg, cwd, originalDir>>

\* variant: the directory is restored at the end of the try block
RestoredDir_in_try(saved, current, failed) == IF failed THEN current ELSE saved

\* finally { process.chdir(originalDir) }
RestoredDir(saved, current, failed) == saved

\* the finally block, and the return or the rethrow through scaffoldProject
PostGenFinally ==
    /\ ScaffoldProject /\ pc = "finally"
    /\ cwd' = RestoredDir(originalDir, cwd, failedStep # "none")
    /\ IF failedStep # "none"
       THEN outcome' = "thrown" /\ errorMsg' = "Scaffolding failed"
       ELSE outcome' = "returned" /\ errorMsg' = errorMsg
    /\ pc' = "done"
    /\ UNCHANGED <<scaffFrame, originalDir, failedStep, agent, retries, invocations,
                   delays, cli, fallback>>

ScaffoldProjectNext ==
    \/ ScaffoldGenerate
    \/ PostGenChdir
    \/ PostGenSetup
    \/ PostGenFinally

----------------------------------------------------------------------------
(* Unpacking: extractArtifact (download_artifact.js) and the extraction    *)
(* branch of downloadGitHubArtifact (ci/download_artifact.js)              *)

Unpacking == prog \in {"extractArtifact", "unpackGitHubArtifact"}

\* f.endsWith('.apk') || f.endsWith('.ipa') || f.endsWith('.aab')
PayloadExts == {".apk", ".ipa", ".aab"}

\* A file of the unpacked tree: depth 0 lies in the unpack directory itself.
TreeFiles == [depth : 0..MaxDepth, ext : PayloadExts \cup {".txt"}]

\* The files of an archive in the order a directory walk meets them.
Trees == UNION {[1..n -> TreeFiles] : n \in 0..MaxTreeFiles}

NoPath      == [kind |-> "none", depth |-> -1, ext |-> ""]
ArchivePath == [kind |-> "archive", depth |-> -1, ext |-> ".zip"]
GivenPath   == [kind |-> "given", depth |-> -1, ext |-> "other"]
DirPath     == [kind |-> "dir", depth |-> -1, ext |-> ""]
FilePath(f) == [kind |-> "file", depth |-> f.depth, ext |-> f.ext]

\* fs.readdirSync(extractDir): the names directly in the unpack directory
readdirSync(t) ==
    LET Top(f) == f.depth = 0 IN SelectSeq(t, Top)

\* findFiles(directory, extension): every file of the tree whose name ends
\* in extension, subdirectories included
findFiles(t, extension) ==
    LET Matches(f) == f.ext = extension IN SelectSeq(t, Matches)

\* extractArtifact(zipPath): a path not ending in .zip is returned as it
\* is; a failing unzip returns the archive; otherwise the first payload
\* file among the top-level names, or the unpack directory.
extractArtifact(zip, ok, t) ==
    IF ~zip THEN GivenPath
    ELSE IF ~ok THEN ArchivePath
    ELSE LET IsPayload(f) == f.ext \in PayloadExts
             found == SelectSeq(readdirSync(t), IsPayload) IN
         IF found # <<>> THEN FilePath(Head(found)) ELSE DirPath

\* downloadGitHubArtifact after downloadFile: unzip into extractDir, return
\* apkFiles[0] if findFiles(extractDir, '.apk') found any; a failing unzip
\* is logged; in every other case return outputPath, the archive.
unpackGitHubArtifact(ok, t) ==
    IF ~ok THEN ArchivePath
    ELSE LET apkFiles == findFiles(t, ".apk") IN
         IF Len(apkFiles) > 0 THEN FilePath(apkFiles[1]) ELSE ArchivePath

unzipFrame == <<argVars, envVars, pollVars, pipeVars, fileVars, dfVars, credVars,
                agentVars, fixVars, moreVars, errorMsg, logged, exitCode, tree, isZip,
                unzipOk>>

ExtractArtifactRun ==
    /\ prog = "extractArtifact" /\ pc = "main"
    /\ artifactPath' = extractArtifact(isZip, unzipOk, tree)
    /\ pc' = "returned"
    /\ UNCHANGED unzipFrame

UnpackGitHubArtifactRun ==
    /\ prog = "unpackGitHubArtifact" /\ pc = "main"
    /\ artifactPath' = unpackGitHubArtifact(unzipOk, tree)
    /\ pc' = "returned"
    /\ UNCHANGED unzipFrame

----------------------------------------------------------------------------
(* The specification *)

\* the programs that take a CI provider
ProviderPrograms ==
    {"poll_and_deliver", "trigger_ci", "trigger", "ci_download_artifact",
     "download_artifact"}

Programs ==
    ProviderPrograms
    \cup {"auto_install", "downloadFile", "extractArtifact", "unpackGitHubArtifact",
          "runAgent", "createAppSpec", "autoFix", "implementFeature",
          "scaffoldProject"}

Init ==
    /\ prog \in Programs
    /\ argv \in (IF prog \in {"ci_download_artifact", "download_artifact"}
                 THEN {"none", "given"} ELSE {"given"})
    /\ CI_PROVIDER \in (IF prog \in ProviderPrograms /\ argv = "given"
                        THEN Providers ELSE {"none"})
    /\ TIMEOUT_SECONDS \in (IF prog = "poll_and_deliver" THEN TimeoutChoices ELSE {0})
    /\ maxWaitMinutes \in (IF prog = "trigger_ci" THEN WaitChoices ELSE {0})
    /\ AUTO_INSTALL \in (IF prog = "poll_and_deliver" THEN BOOLEAN ELSE {FALSE})
    /\ NO_NOTIFY \in (IF prog = "poll_and_deliver" THEN BOOLEAN ELSE {FALSE})
    /\ FORCE_ADB \in (IF prog = "auto_install" THEN BOOLEAN ELSE {FALSE})
    /\ NO_PERMISSIONS \in (IF prog = "auto_install" THEN BOOLEAN ELSE {FALSE})
    /\ notifier \in (IF prog \in {"poll_and_deliver", "auto_install"} /\ ~NO_NOTIFY
                     THEN {"absent", "present"} ELSE {"absent"})
    /\ termuxOpen \in (IF prog = "auto_install" THEN TermuxOpenStates ELSE {"unknown"})
    /\ adb \in (IF prog = "auto_install" THEN AdbStates ELSE {"unknown"})
    /\ build \in (IF prog \in {"ci_download_artifact", "download_artifact"}
                     /\ argv = "given"
                  THEN BuildStates(CI_PROVIDER) ELSE {NoReply})
    /\ pc = "main"
    /\ attempts = 0
    /\ attempt = 0
    /\ queries = 0
    /\ sleeps = 0
    /\ observed = {}
    /\ last = NoReply
    /\ pollState = "Idle"
    /\ errorMsg = ""
    /\ artifactUrl = "none"
    /\ stages = <<>>
    /\ apk_file = <<>>
    /\ downloaded_file \in (IF prog = "auto_install" THEN {"", "payload.apk"} ELSE {""})
    /\ file_exists = (downloaded_file # "")
    /\ file_size \in (IF file_exists THEN 0..MaxFileSize ELSE {0})
    /\ file_ext = (IF file_exists THEN ".apk" ELSE "")
    /\ validation = "none"
    /\ warned = FALSE
    /\ hops = <<>>
    /\ received = 0
    /\ contentLength = 0
    /\ tree \in (IF Unpacking THEN Trees ELSE {<<>>})
    /\ isZip \in (IF prog = "extractArtifact" THEN BOOLEAN ELSE {TRUE})
    /\ unzipOk \in (IF Unpacking THEN BOOLEAN ELSE {TRUE})
    /\ artifactPath = NoPath
    /\ credential = "unchecked"
    /\ requests = 0
    /\ handle = NoHandle
    /\ agent \in (IF RunAgent THEN Agents ELSE {"none"})
    /\ retries \in (IF RunAgent THEN 0..MaxRetries ELSE {0})
    /\ invocations = 0
    /\ delays = <<>>
    /\ cli = "none"
    /\ fallback = "none"
    /\ outcome = "pending"
    /\ fixOptions \in (IF AutoFix THEN FixOptions
                       ELSE {[fixLint |-> "undefined", fixTests |-> "undefined",
                              improveQuality |-> "undefined"]})
    /\ fixResults = NoFixResults
    /\ category \in (IF ImplementFeature THEN Categories ELSE {"none"})
    /\ additionalFiles = FALSE
    /\ failedStep = "none"
    /\ cwd = StartDir
    /\ originalDir = "unset"
    /\ framework \in (IF prog = "scaffoldProject" THEN Frameworks ELSE {"none"})
    /\ methods = <<>>
    /\ chmods = 0
    /\ logged = {}
    /\ exitCode = -1

Next ==
    \/ DeliverNext
    \/ TriggerCiNext
    \/ TriggerRun
    \/ CiDownloadRun
    \/ DownloadRun
    \/ CiDownloadNoArgs
    \/ DownloadNoArgs
    \/ DownloadValidate
    \/ AutoInstallNext
    \/ DownloadFileNext
    \/ ExtractArtifactRun
    \/ UnpackGitHubArtifactRun
    \/ RunAgentNext
    \/ CreateAppSpecRun
    \/ AutoFixRun
    \/ ImplementFeatureRun
    \/ ScaffoldProjectNext

Spec == Init /\ [][Next]_vars

\* The pollers alone, every step of which is eventually taken: each status
\* query and each sleep returns.
PollInit == Init /\ prog \in {"poll_and_deliver", "trigger_ci"}

PollNext ==
    \/ DeliverNext
    \/ TriggerCiNext

LiveSpec == PollInit /\ [][PollNext]_vars /\ WF_vars(PollNext)

----------------------------------------------------------------------------
(* Properties *)

\* The BuildStatus a backend reply stands for.
BuildStatusOf(p, r) ==
    IF r = NoReply \/ r = QueryError THEN "Unknown"
    ELSE IF p = "github" THEN
        IF r.status = "completed" THEN
            IF r.conclusion = "success" THEN "Succeeded"
            ELSE IF r.conclusion = "cancelled" THEN "Canceled"
            ELSE "Failed"
        ELSE IF r.status = "in_progress" THEN "Running"
        ELSE IF r.status = "queued" THEN "Pending"
        ELSE "Unknown"
    ELSE IF p = "codemagic" THEN
        IF r.status = "finished" THEN
            IF r.conclusion = "success" THEN "Succeeded" ELSE "Failed"
        ELSE IF r.status = "failed" THEN "Failed"
        ELSE IF r.status = "canceled" THEN "Canceled"
        ELSE IF r.status = "building" THEN "Running"
        ELSE "Unknown"
    ELSE
        IF r.status = "finished" THEN "Succeeded"
        ELSE IF r.status = "errored" THEN "Failed"
        ELSE IF r.status = "canceled" THEN "Canceled"
        ELSE IF r.status = "in-progress" THEN "Running"
        ELSE IF r.status = "in-queue" THEN "Pending"
        ELSE "Unknown"

TerminalStatuses == {"Succeeded", "Failed", "Canceled"}

CeilDiv(a, b) == (a + b - 1) \div b

\* the run is one of a poller
Pollers == prog \in {"poll_and_deliver", "trigger_ci"}

\* the timeout budget T of the poll, in seconds
TimeoutBudget == IF Deliver THEN TIMEOUT_SECONDS ELSE maxWaitMinutes * 60

\* some status query returned a terminal status
SawTerminal ==
    \E r \in observed : BuildStatusOf(CI_PROVIDER, r) \in TerminalStatuses

\* every status query so far returned a non-terminal status
AllNonTerminal ==
    \A r \in observed :
        r # QueryError /\ BuildStatusOf(CI_PROVIDER, r) \notin TerminalStatuses

PollEnded == Pollers /\ pc = "exit" /\ pollState # "Idle"

\* C1: with interval I = 30 s and budget T, a poll in which no status query
\* returned a terminal status has issued at most ceil(T/I) status queries,
\* failed queries included, at every moment up to and including TimedOut.
C1_QueryBound ==
    (Pollers /\ ~SawTerminal) => queries <= CeilDiv(TimeoutBudget, POLL_INTERVAL)

\* a poll timed out having used the whole bound, a failed query among them
C1_Witness ==
    /\ Pollers /\ ~SawTerminal /\ pollState = "TimedOut"
    /\ QueryError \in observed
    /\ queries >= 2
    /\ queries = CeilDiv(TimeoutBudget, POLL_INTERVAL)

\* C2: with a 60 s budget, a poll whose every query returns a non-terminal
\* status never issues a third query, and when it has ended it is TimedOut
\* after exactly 2 queries, with the "did not complete" error and exit code 1.
C2_SixtySeconds ==
    (Pollers /\ TimeoutBudget = 60 /\ AllNonTerminal) =>
        /\ queries <= 2
        /\ PollEnded =>
            /\ pollState = "TimedOut"
            /\ queries = 2
            /\ errorMsg = "Build did not complete within"
            /\ exitCode = 1

C2_Witness ==
    /\ Deliver /\ TIMEOUT_SECONDS = 60 /\ AllNonTerminal
    /\ pollState = "TimedOut" /\ queries = 2 /\ sleeps = 2 /\ exitCode = 1

\* a reply by which trigger_ci.js itself recognises a failed build: GitHub
\* 'completed' without 'success', Codemagic 'finished' without success, EAS
\* 'errored' or 'canceled'
JsReportsFailed(p, r) ==
    /\ r # QueryError /\ r # NoReply
    /\ IF p = "github" THEN r.status = "completed" /\ r.conclusion # "success"
       ELSE IF p = "codemagic" THEN r.status = "finished" /\ r.conclusion # "success"
       ELSE r.status \in {"errored", "canceled"}

\* C3: in the trigger_ci.js pollers, as soon as a status query has reported
\* a failed build the poller is in Failed and has ended: no further query is
\* issued and no interval is waited after it.
C3_FailedAtOnce ==
    (TriggerCi /\ \E r \in observed : JsReportsFailed(CI_PROVIDER, r)) =>
        (pollState = "Failed" /\ pc = "exit")

\* C4: in every poller and for every provider, once the latest status query
\* returned a status meaning Failed or Canceled the poller is in Failed.
\* (The replies trigger_ci.js recognises as failures are the subject of C3
\* and are left out here.)
C4_FailedOrCanceledEndsPoll ==
    ( /\ Pollers
      /\ BuildStatusOf(CI_PROVIDER, last) \in {"Failed", "Canceled"}
      /\ ~(TriggerCi /\ JsReportsFailed(CI_PROVIDER, last)) )
    => pollState = "Failed"

\* C5: a poll ends only as Succeeded, Failed or TimedOut, never with the
\* error of a failed status query; a poll whose queries all failed ends with
\* the "did not complete" error.
C5_TransientNeverEndsPoll ==
    PollEnded =>
        /\ errorMsg # TransientMsg
        /\ (observed = {QueryError} => errorMsg = "Build did not complete within")

\* C6: an artifact URL is resolved, returned or downloaded from only for a
\* build whose status is Succeeded (pollers of trigger_ci.js and the download
\* functions of both download_artifact.js scripts).
C6_UrlOnlyAfterSucceeded ==
    (prog \in {"trigger_ci", "ci_download_artifact", "download_artifact"}
        /\ artifactUrl = "url") =>
        BuildStatusOf(CI_PROVIDER, build) = "Succeeded"

\* the backend said the build succeeded and has no artifact
SucceededWithoutArtifact(r) ==
    BuildStatusOf(CI_PROVIDER, r) = "Succeeded" /\ ~r.artifact

\* C7: when the backend reports a successful build without artifact, the
\* trigger_ci.js poll ends at once with an error: it never returns a success
\* result whose artifactUrl is null, and it does not go on polling.  (For
\* GitHub the artifacts are a second query, which may itself fail; the
\* second conjunct is about the providers whose status reply carries them.)
C7_NoArtifactIsAnError ==
    TriggerCi =>
        /\ (pollState = "Succeeded" => artifactUrl = "url")
        /\ (CI_PROVIDER # "github" /\ SucceededWithoutArtifact(last)) =>
               (pc = "exit" /\ pollState # "Succeeded")

\* s is an initial segment of t
IsPrefix(s, t) == Len(s) <= Len(t) /\ s = SubSeq(t, 1, Len(s))

InStages(x) == \E i \in 1..Len(stages) : stages[i] = x

\* C8: in poll_and_deliver.sh the stages begin in the order poll, download,
\* install; the download begins only after a poll that returned on a
\* Succeeded status; installation begins only after a download that left a
\* file; a poll that ended Failed or TimedOut, and a failed download, end the
\* script with exit code 1 and no later stage.
C8_StageOrder ==
    Deliver =>
        /\ IsPrefix(stages, <<"poll", "download", "install">>)
        /\ InStages("download") =>
            (pollState = "Succeeded" /\ BuildStatusOf(CI_PROVIDER, last) = "Succeeded")
        /\ InStages("install") => downloaded_file # ""
        /\ (pc = "exit" /\ pollState \in {"Failed", "TimedOut"}) =>
            (exitCode = 1 /\ stages = <<"poll">>)
        /\ (pc = "exit" /\ InStages("download") /\ downloaded_file = "") =>
            (exitCode = 1 /\ stages = <<"poll", "download">>)

\* a download that failed after a successful poll ended the script
C8_Witness ==
    /\ Deliver /\ pc = "exit" /\ pollState = "Succeeded"
    /\ stages = <<"poll", "download">> /\ downloaded_file = "" /\ exitCode = 1
    /\ errorMsg = "Download failed"

\* C9: --auto-install, the status queries returned Running three times and
\* then Succeeded, the download found payload.apk, termux-open is not
\* installed, adb has an authorized device and installs, and no notification
\* fails.  Then the script ends with exit code 0 after installing through
\* adb alone, having logged "Delivery completed successfully".
C9_EndToEnd ==
    ( /\ Deliver /\ AUTO_INSTALL /\ pc = "exit"
      /\ queries = 4
      /\ BuildStatusOf(CI_PROVIDER, last) = "Succeeded"
      /\ \A r \in observed \ {last} : BuildStatusOf(CI_PROVIDER, r) = "Running"
      /\ downloaded_file = "payload.apk"
      /\ termuxOpen = "absent" /\ adb = "ok"
      /\ notifier = "absent" )
    =>
    ( /\ exitCode = 0
      /\ methods = <<"adb">>
      /\ "Delivery completed successfully" \in logged )

\* C10: auto_install.sh without --force-adb, termux-open not installed, adb
\* with an authorized device that installs: the run ends with exit code 0
\* after the adb method, and manual_fallback is never invoked.
C10_SecondaryInstalls ==
    ( /\ AutoInstall /\ ~FORCE_ADB /\ pc = "exit"
      /\ downloaded_file # ""
      /\ termuxOpen = "absent" /\ adb = "ok" )
    =>
    ( exitCode = 0 /\ methods = <<"adb">> )

InMethods(x) == \E i \in 1..Len(methods) : methods[i] = x

\* place of a method in the chain: termux-open, adb, manual
MethodRank(x) == IF x = "termux-open" THEN 1 ELSE IF x = "adb" THEN 2 ELSE 3

\* an automatic method was run and installed
AutoMethodSucceeded ==
    \/ InMethods("termux-open") /\ termuxOpen = "ok"
    \/ InMethods("adb") /\ adb = "ok"

\* C11: in a run of auto_install.sh, with or without --force-adb, no
\* installation method is attempted twice, and without --force-adb the
\* methods attempted follow the chain's order.
C11_NeverRetries ==
    AutoInstall =>
        \A i, j \in 1..Len(methods) :
            i < j =>
                /\ methods[i] # methods[j]
                /\ ~FORCE_ADB => MethodRank(methods[i]) < MethodRank(methods[j])

\* C12: a run of auto_install.sh in which no automatic method installed ends
\* in the manual fallback, and a run that entered the manual fallback ends
\* with the instructions emitted and exit code 1, whatever termux-open and
\* termux-notification do.
C12_ManualFallbackCompletes ==
    (AutoInstall /\ pc = "exit" /\ downloaded_file # "" /\ ~AutoMethodSucceeded) =>
        /\ InMethods("manual")
        /\ "Manual Installation Instructions" \in logged
        /\ exitCode = 1

\* C13: what termux-notification does changes neither the steps that run
\* nor the exit code.  Without a notifier every run of poll_and_deliver.sh
\* begins the poll stage and every run of auto_install.sh in which an
\* automatic method installed exits 0, so the same holds with a notifier
\* that is present, whether it succeeds or fails.
C13_NotifierNeverGates ==
    /\ (Deliver /\ pc = "exit") => InStages("poll")
    /\ (AutoInstall /\ pc = "exit" /\ AutoMethodSucceeded) => exitCode = 0

C15_ValidatorGatesDelivery ==
    ((Deliver \/ AutoInstall) /\ methods # <<>>) =>
        (downloaded_file # "" /\ file_exists /\ file_size > 0)

\* C16: validateArtifact throws the not-found error iff the path does not
\* exist, the empty error iff it exists with size zero, and passes in every
\* other case; it warns exactly when it passes and the lower-cased extension
\* is outside {.apk, .ipa, .aab}.
C16_ValidateArtifact ==
    (Download /\ validation # "none") =>
        /\ validation = (IF ~file_exists THEN "Artifact file not found"
                         ELSE IF file_size = 0 THEN "Artifact file is empty"
                         ELSE "passed")
        /\ warned = (validation = "passed" /\ file_ext \in {".zip", ""})
        /\ exitCode = (IF validation = "passed" THEN 0 ELSE 1)

\* a non-empty file whose extension is spelled in capitals passed unwarned
C16_Witness ==
    /\ Download /\ validation = "passed" /\ ~warned
    /\ file_ext = ".APK" /\ file_size > 0 /\ exitCode = 0

\* the request of the final hop and the promise downloadFile returned
FinalHop == hops[Len(hops)]
FirstPromise == hops[1].promise

\* the request's own timer is due or has fired: its socket saw no traffic
\* for the whole ceiling
Stalled(hop) ==
    hop.state = "timedout" \/ (Live(hop) /\ hop.idle = TimeoutTicks)

\* C17: downloadFile follows every 301/302 with a new request carrying the
\* headers of the first one, and once the promise returned for the first
\* URL is settled it holds the outcome of the final hop (a final hop whose
\* own timer is due is left aside).
C17_RedirectsFollowed ==
    (DownloadFile /\ hops # <<>>) =>
        /\ \A k \in 1..Len(hops) : hops[k].headers = hops[1].headers
        /\ \A k \in 1..(Len(hops) - 1) : IsRedirect(hops[k].status)
        /\ (FirstPromise # "pending" /\ ~Stalled(FinalHop)) =>
               FirstPromise = FinalHop.promise

\* C18: downloadFile is rejected with the timeout error only when the
\* request of the final hop itself was idle for the whole ceiling, and a
\* download whose final hop received its whole body resolves.
C18_TimeoutOnlyOnStall ==
    (DownloadFile /\ hops # <<>>) =>
        /\ FirstPromise = "timeout" => Stalled(FinalHop)
        /\ FinalHop.state = "ended" => FirstPromise = "resolved"

\* C19: for a terminal response the call of the final hop is rejected, with
\* no output file created, when the status is not 2xx or the transport
\* failed, and it is not rejected for its status when the status is 2xx.
C19_RejectsNon2xxOnly ==
    (DownloadFile /\ hops # <<>> /\ FinalHop.status >= 0
        /\ ~IsRedirect(FinalHop.status)) =>
        IF FinalHop.status \in 200..299
        THEN FinalHop.promise # "http"
        ELSE FinalHop.promise \in {"http", "error"} /\ ~file_exists

\* C20: when downloadFile has resolved, the output file holds exactly
\* content-length bytes, and a transfer cut short never resolves.
C20_SizeIsContentLength ==
    (DownloadFile /\ hops # <<>>) =>
        /\ FirstPromise = "resolved" =>
               (file_exists /\ file_size = contentLength /\ received = contentLength)
        /\ FinalHop.state = "aborted" =>
               \A k \in 1..Len(hops) : hops[k].promise # "resolved"

\* a 302 followed by a 200 whose body arrived whole
C20_Witness ==
    /\ DownloadFile /\ Len(hops) = 2
    /\ hops[1].status = 302 /\ hops[2].status = 200
    /\ FirstPromise = "resolved"
    /\ contentLength = MaxFileSize /\ file_size = MaxFileSize

\* an archive was unpacked
Unpacked == Unpacking /\ pc = "returned" /\ isZip /\ unzipOk

\* the unpacked tree holds a payload file, at whatever depth
HasPayload == \E i \in 1..Len(tree) : tree[i].ext \in PayloadExts

\* C21: when the unpacked archive holds no file with a payload extension,
\* both retrievers return the unpack directory.
C21_FailSoftReturnsDirectory ==
    (Unpacked /\ ~HasPayload) => artifactPath = DirPath

\* C22: when the unpacked tree holds a payload file at any depth, both
\* retrievers return a file with a payload extension.
C22_ScansRecursively ==
    (Unpacked /\ HasPayload) =>
        (artifactPath.kind = "file" /\ artifactPath.ext \in PayloadExts)

\* C23: in auto_install.sh without --force-adb, when termux-open is
\* installed and returns success the run ends with exit code 0 and
\* termux-open is the only method invoked; install_apk returns 0 after
\* termux-open alone.
C23_HandoffShortCircuits ==
    /\ (AutoInstall /\ ~FORCE_ADB /\ termuxOpen = "ok" /\ pc = "exit"
            /\ downloaded_file # "") =>
           (exitCode = 0 /\ methods = <<"termux-open">>)
    /\ \A ad \in AdbStates :
           install_apk("ok", ad) = [ret |-> 0, methods |-> <<"termux-open">>]

\* C24: adb install -r is issued only when adb devices listed a device in
\* state "device"; with adb missing or broken, no device, or only
\* unauthorized devices it is not issued, and the chain goes on to the
\* manual fallback unless termux-open installed.
C24_AdbOnlyWithAuthorizedDevice ==
    /\ ((AutoInstall \/ Deliver) /\ InMethods("adb")) => adb \in {"ok", "fail"}
    /\ (AutoInstall /\ pc = "exit" /\ downloaded_file # ""
            /\ adb \notin {"ok", "fail"} /\ termuxOpen # "ok") =>
           (~InMethods("adb") /\ InMethods("manual"))
    /\ \A to \in TermuxOpenStates, ad \in AdbStates \ {"ok", "fail"} :
           \A i \in 1..Len(install_apk(to, ad).methods) :
               install_apk(to, ad).methods[i] # "adb"

\* --force-adb with only an unauthorized device: no adb install, manual fallback
C24_Witness ==
    /\ AutoInstall /\ FORCE_ADB /\ pc = "exit" /\ adb = "unauthorized"
    /\ termuxOpen = "fail"
    /\ methods = <<"termux-open", "manual">>

\* C25: chmod 644 is called at most once per run; when an installation
\* method has been attempted it was called exactly once before, with or
\* without --force-adb, unless auto_install.sh ran with --no-permissions;
\* after a failing chmod the chain still runs.
C25_PermissionsOnce ==
    /\ chmods <= 1
    /\ (AutoInstall /\ methods # <<>>) => chmods = (IF NO_PERMISSIONS THEN 0 ELSE 1)
    /\ (AutoInstall /\ pc = "exit"
            /\ "Warning: Failed to set permissions" \in logged) => methods # <<>>

\* chmod failed, and the forced adb installation still ran and succeeded
C25_Witness ==
    /\ AutoInstall /\ FORCE_ADB /\ ~NO_PERMISSIONS /\ pc = "exit"
    /\ "Warning: Failed to set permissions" \in logged
    /\ chmods = 1 /\ methods = <<"adb">> /\ exitCode = 0

\* C26: when the credential or CLI of the provider is absent, the trigger,
\* the poll or the download has ended with exit code 1 and an error message,
\* without a command that reached the provider, a status query, a build
\* handle, an artifact locator or a downloaded file.
C26_NoCredentialNoRequest ==
    credential = "absent" =>
        /\ pc = "exit" /\ exitCode = 1 /\ errorMsg # ""
        /\ requests = 0 /\ queries = 0
        /\ handle = NoHandle
        /\ artifactUrl = "none" /\ downloaded_file = ""

\* ci/download_artifact.js --provider codemagic without the token
C26_Witness ==
    /\ CiDownload /\ CI_PROVIDER = "codemagic" /\ credential = "absent"
    /\ build # NoReply /\ build.artifact
    /\ errorMsg = "CODEMAGIC_ACCESS_TOKEN environment variable required"
    /\ pc = "exit" /\ exitCode = 1

C28_GeminiThenClaude ==
    (CreateAppSpec /\ pc = "done") =>
        /\ stages \in {<<"gemini">>, <<"claude">>, <<"gemini", "claude">>}
        /\ InStages("claude") <=> cli \in {"unavailable", "error"}
        /\ InStages("gemini") <=> cli # "unavailable"
        /\ cli = "ok" => (outcome = "returned" /\ agent = "Gemini")
        /\ (cli # "ok" /\ fallback = "ok") => (outcome = "returned" /\ agent = "Claude")
        /\ (cli # "ok" /\ fallback = "error") =>
               /\ outcome = "thrown" /\ agent = "none"
               /\ errorMsg = "Failed to create AppSpec with both Gemini and Claude"

\* Gemini's generation threw and Claude's AppSpec is returned
C28_Witness ==
    /\ CreateAppSpec /\ pc = "done" /\ cli = "error" /\ fallback = "ok"
    /\ stages = <<"gemini", "claude">> /\ outcome = "returned" /\ agent = "Claude"

WaitedBetweenAttempts ==
    /\ Len(delays) = (IF pc = "attempt" THEN invocations
                      ELSE IF invocations = 0 THEN 0 ELSE invocations - 1)
    /\ \A i \in DOMAIN delays : delays[i] > 0

\* C29 as stated: with retries r >= 1 a runner stops at the first call of
\* its CLI that succeeds (exits 0) and returns.
C29_StopsAtFirstSuccessfulInvocation ==
    (RunAgent /\ retries >= 1 /\ cli \in {"ok", "rejected"}) =>
        (outcome = "returned" /\ pc = "done")

\* C29, amended: with retries r >= 1 a runner calls its CLI at most r times;
\* it stops and returns at the first call that succeeds with output the
\* runner accepts, and returns only then; it has waited a delay after every
\* failed attempt that was followed by another; it throws '<agent> failed
\* after r attempts' exactly after r failed attempts; when checkAvailable
\* fails it throws without calling the CLI.
C29_RunnerRetries ==
    (RunAgent /\ retries >= 1) =>
        /\ invocations <= retries
        /\ cli = "ok" <=> outcome = "returned"
        /\ outcome # "pending" <=> pc = "done"
        /\ WaitedBetweenAttempts
        /\ (outcome = "thrown" /\ invocations > 0) =>
               /\ invocations = retries /\ cli \in {"error", "rejected"}
               /\ errorMsg = FailedAfter(agent, retries)
        /\ (outcome = "thrown" /\ invocations = 0) => errorMsg = NotAvailable(agent)
        /\ errorMsg = NotAvailable(agent) => (invocations = 0 /\ outcome = "thrown")

\* two failed attempts, two delays, success at the third and last attempt
C29_Witness ==
    /\ RunAgent /\ agent = "Gemini" /\ retries = 3 /\ invocations = 3
    /\ delays = <<2, 4>> /\ cli = "ok" /\ outcome = "returned"

StagesEnabled ==
    SelectSeq(<<"lint", "tests", "quality">>,
              LAMBDA n : IF n = "lint" THEN fixOptions.fixLint # "false"
                         ELSE IF n = "tests" THEN fixOptions.fixTests # "false"
                         ELSE fixOptions.improveQuality = "true")

Threw(n) ==
    IF n = "lint" THEN "Lint auto-fix failed" \in logged
    ELSE IF n = "tests" THEN "Test auto-fix failed" \in logged
    ELSE "Quality improvement failed" \in logged

\* C30: autoFix runs exactly the enabled stages, in the order lint, tests,
\* quality, whichever of them threw; the result of a stage is null exactly
\* when it was not run or threw; totalChanges is the sum of the changes of
\* the stages that have a result; autoFix returns.
C30_AutoFixRunsEveryStage ==
    (AutoFix /\ pc = "done") =>
        /\ stages = StagesEnabled
        /\ outcome = "returned"
        /\ \A n \in {"lint", "tests", "quality"} :
               /\ fixResults[n].null <=> (~InStages(n) \/ Threw(n))
               /\ fixResults[n].null => fixResults[n].changes = 0
        /\ fixResults.totalChanges =
               fixResults.lint.changes + fixResults.tests.changes
               + fixResults.quality.changes

\* lint threw, and tests and quality still ran and are counted
C30_Witness ==
    /\ AutoFix /\ pc = "done" /\ stages = <<"lint", "tests", "quality">>
    /\ Threw("lint") /\ fixResults.lint = Null
    /\ fixResults.tests.changes = 2 /\ fixResults.quality.changes = 1
    /\ fixResults.totalChanges = 3

\* the steps a run with this category and this answer of Claude has
StepsOfFeature ==
    SelectSeq(FeatureSteps,
              LAMBDA x : /\ x = "generateFeature" =>
                              category \in {"data", "integration"}
                         /\ x = "writeFiles" =>
                              (category \in {"data", "integration"} /\ additionalFiles))

\* C31: the steps of implementFeature run in the order createFeatureBranch,
\* implementFeature (Continue), generateFeature (Claude) and the file
\* writes, commitFeature; Claude runs only for category 'data' or
\* 'integration'; commitFeature runs only after every earlier step of the
\* run succeeded; the result is returned only after the commit succeeded;
\* a step that fails is the last step run and its error is thrown.
C31_FeatureStepsInOrder ==
    (ImplementFeature /\ pc = "done") =>
        /\ IsPrefix(stages, StepsOfFeature)
        /\ InStages("generateFeature") => category \in {"data", "integration"}
        /\ InStages("commitFeature") =>
               /\ stages = StepsOfFeature
               /\ \A i \in 1..(Len(stages) - 1) : stages[i] # failedStep
        /\ outcome = "returned" <=>
               (stages = StepsOfFeature /\ ~InStages(failedStep))
        /\ InStages(failedStep) =>
               /\ outcome = "thrown"
               /\ stages[Len(stages)] = failedStep
               /\ errorMsg = failedStep

\* Claude's generation throws for a feature of category 'data': no file is
\* written and nothing is committed
C31_Witness ==
    /\ ImplementFeature /\ pc = "done" /\ category = "data"
    /\ failedStep = "generateFeature" /\ outcome = "thrown"
    /\ stages = <<"createFeatureBranch", "implementFeature", "generateFeature">>

\* C38: when scaffoldProject has returned or thrown, the working directory
\* of the process is the one it was called in, whether the post-generation
\* setup succeeded or failed.
C38_WorkingDirectoryRestored ==
    (ScaffoldProject /\ pc = "done") => cwd = StartDir

\* npm install failed in the output directory and the directory is restored
C38_Witness ==
    /\ ScaffoldProject /\ pc = "done" /\ framework = "react-native"
    /\ failedStep = "npm install" /\ outcome = "thrown"
    /\ originalDir = StartDir /\ cwd = StartDir

\* C32: a download script run without arguments ends with exit code 1,
\* having begun no download and sent nothing to a provider; this holds for
\* download_artifact.js and for ci/download_artifact.js.
C32_NoArgumentsExitOne ==
    (prog \in {"ci_download_artifact", "download_artifact"} /\ argv = "none"
        /\ pc # "main") =>
        /\ pc = "exit" /\ exitCode = 1 /\ errorMsg # ""
        /\ ~InStages("download") /\ requests = 0
        /\ artifactUrl = "none" /\ downloaded_file = ""

\* ci/download_artifact.js without arguments has ended
C32_Witness ==
    /\ CiDownload /\ argv = "none" /\ pc = "exit" /\ exitCode = 1
    /\ errorMsg = "--repo and --run-id required for GitHub downloads"

\* C33: under LiveSpec every poll that has started reaches one of the
\* states Succeeded, Failed or TimedOut.
C33_EveryPollTerminates ==
    (Pollers /\ pollState = "Polling") ~>
        (pollState \in {"Succeeded", "Failed", "TimedOut"})

\* every poll that has started leaves the state Polling
PollLeavesPolling == (Pollers /\ pollState = "Polling") ~> (pollState # "Polling")

\* C34: a shell poll with a positive timeout budget that is TimedOut has
\* issued at least one status query.
C34_QueryBeforeTimedOut ==
    (Deliver /\ TIMEOUT_SECONDS > 0 /\ pollState = "TimedOut") => queries >= 1

\* C35: the handle a trigger call returns names the build that this call
\* dispatched, whatever other runs exist in the repository.
C35_HandleNamesOwnBuild ==
    (Trigger /\ handle # NoHandle) => handle.run = "own"

\* C36: what main of poll_and_deliver.sh captures from download_artifact is
\* the path of the downloaded file and nothing else; no log line is part of it.
C36_CapturedIsThePath ==
    (Deliver /\ InStages("download") /\ downloaded_file # "") =>
        apk_file = <<downloaded_file>>

\* C37: an agent runner call that returns has invoked its command line tool
\* and returns the output of an invocation that succeeded; it never returns
\* without having invoked the tool.
C37_ReturnsOutputOfInvocation ==
    (RunAgent /\ outcome = "returned") => (invocations >= 1 /\ cli = "ok")

====
